---- MODULE Spec2Model ----
(***************************************************************************)
(* OptimalHouse: the mortgage calculator and the proforma engine of        *)
(* src/src/utils/calculations.ts, with the whole-dollar formatting the     *)
(* display applies to its results.                                         *)
(*                                                                         *)
(* Numbers.  A JavaScript number is modelled as an exact rational <<n, d>> *)
(* in lowest terms with d > 0, or as one of the three non-finite values    *)
(* NaN = <<0,0>>, +Infinity = <<1,0>>, -Infinity = <<-1,0>>.  Arithmetic   *)
(* is the real-number arithmetic that IEEE doubles approximate: the        *)
(* rounding error of a double and the sign of zero are not modelled.       *)
(* Math.pow is modelled for a non-negative whole exponent only, so every   *)
(* loan term used below gives a whole number of monthly payments.          *)
(***************************************************************************)
EXTENDS Integers, Sequences, FiniteSets, TLC

VARIABLES
    pc,           \* "args": inputs drawn, function not yet applied; "returned"
    mpi,          \* the arguments of a calculateMonthlyPI call
    payment,      \* the value calculateMonthlyPI returned
    assumptions,  \* Assumptions record: argument of calculateProforma, and the
                  \* state of that name of PropertyPage
    personal,     \* PersonalInfo record, likewise
    scenario,     \* Scenario, likewise
    proforma,     \* the Proforma calculateProforma returned
    calls,        \* the calls made so far, each with its arguments and result
    clock,        \* the calendar year at the time of a call
    property,     \* Property: argument of simulatePropertyData, and the state
                  \* of that name of App (NoProperty for null)
    simulated,    \* the Assumptions simulatePropertyData returned
    seeded,       \* the arguments of a seededRandom call
    drawn,        \* the value seededRandom returned
    power,        \* Math.pow(1 + monthlyRate, n) under evaluation
    initialAssumptions,  \* state of App
    isDarkMode,          \* state of App
    showAssumptions,     \* state of PropertyPage
    edits                \* the number of editor changes made so far

piVars == <<mpi, payment>>
engineVars == <<assumptions, personal, scenario, proforma>>
generatorVars == <<property, simulated, seeded, drawn>>
appVars == <<initialAssumptions, isDarkMode, showAssumptions, edits>>

vars == <<pc, piVars, engineVars, calls, clock, generatorVars, power, appVars>>

----------------------------------------------------------------------------
(* JavaScript number arithmetic                                            *)

NaN == <<0, 0>>
PosInf == <<1, 0>>
NegInf == <<-1, 0>>

Abs(a) == IF a < 0 THEN -a ELSE a

Sign(a) == IF a < 0 THEN -1 ELSE IF a > 0 THEN 1 ELSE 0

RECURSIVE GCD(_, _)
GCD(a, b) == IF b = 0 THEN a ELSE GCD(b, a % b)

\* the rational n/d in lowest terms, d # 0
Q(n, d) ==
    LET g == GCD(Abs(n), Abs(d))
        s == IF d < 0 THEN -1 ELSE 1
    IN  <<(s * n) \div g, (s * d) \div g>>

Whole(n) == <<n, 1>>
Zero == Whole(0)
One == Whole(1)

IsNaN(x) == x = NaN
IsFinite(x) == x[2] # 0

Neg(x) == <<-x[1], x[2]>>

\* x + y
Add(x, y) ==
    IF IsNaN(x) \/ IsNaN(y) THEN NaN
    ELSE IF ~IsFinite(x) /\ ~IsFinite(y) THEN (IF x = y THEN x ELSE NaN)
    ELSE IF ~IsFinite(x) THEN x
    ELSE IF ~IsFinite(y) THEN y
    ELSE LET g == GCD(x[2], y[2])
         IN  Q(x[1] * (y[2] \div g) + y[1] * (x[2] \div g), x[2] * (y[2] \div g))

\* x - y
Sub(x, y) == Add(x, Neg(y))

\* x * y
Mul(x, y) ==
    IF IsNaN(x) \/ IsNaN(y) THEN NaN
    ELSE IF ~IsFinite(x) \/ ~IsFinite(y)
         THEN (IF x[1] = 0 \/ y[1] = 0 THEN NaN
               ELSE <<Sign(x[1]) * Sign(y[1]), 0>>)
    ELSE LET g1 == GCD(Abs(x[1]), y[2])
             g2 == GCD(Abs(y[1]), x[2])
         IN  Q((x[1] \div g1) * (y[1] \div g2), (x[2] \div g2) * (y[2] \div g1))

\* x / y: a zero divisor gives NaN (0/0) or an infinity, never an exception
Div(x, y) ==
    IF IsNaN(x) \/ IsNaN(y) THEN NaN
    ELSE IF ~IsFinite(x) /\ ~IsFinite(y) THEN NaN
    ELSE IF ~IsFinite(y) THEN Zero
    ELSE IF ~IsFinite(x) THEN <<x[1] * (IF y[1] < 0 THEN -1 ELSE 1), 0>>
    ELSE IF y[1] = 0 THEN <<Sign(x[1]), 0>>
    ELSE Mul(x, Q(y[2], y[1]))

\* x < y (false when either is NaN)
Lt(x, y) ==
    IF IsNaN(x) \/ IsNaN(y) THEN FALSE
    ELSE IF x = y THEN FALSE
    ELSE IF x = NegInf \/ y = PosInf THEN TRUE
    ELSE IF x = PosInf \/ y = NegInf THEN FALSE
    ELSE Sub(x, y)[1] < 0

\* x === y on numbers (false when either is NaN)
Eq(x, y) == ~IsNaN(x) /\ ~IsNaN(y) /\ x = y

\* x <= y
Le(x, y) == Lt(x, y) \/ Eq(x, y)

\* x > y
Gt(x, y) == Lt(y, x)

\* Math.abs
MathAbs(x) == <<Abs(x[1]), x[2]>>

\* Math.min
MathMin(x, y) == IF IsNaN(x) \/ IsNaN(y) THEN NaN ELSE IF Lt(y, x) THEN y ELSE x

\* base^k for a natural k
RECURSIVE PowNat(_, _)
PowNat(base, k) == IF k = 0 THEN One ELSE Mul(base, PowNat(base, k - 1))

\* Math.pow(base, e): NaN for a NaN exponent, otherwise modelled for e a
\* non-negative whole number
MathPow(base, e) == IF IsNaN(e) THEN NaN ELSE PowNat(base, e[1])

----------------------------------------------------------------------------
(* Fixed-point arithmetic for the thirty-year loan                         *)
(*                                                                         *)
(* (1 + 0.065/12)^360 has far more digits than an exact fraction of        *)
(* machine integers can hold.  For such a loan the payment is evaluated    *)
(* between a lower and an upper bound, in decimal fixed point with twelve  *)
(* fractional digits: a number is <<x1, x2, x3, x4, x5>>, limbs in base    *)
(* 10000, standing for x1*10^4 + x2 + x3/10^4 + x4/10^8 + x5/10^12.        *)
(* Every operation rounds its lower bound down and its upper bound up, so  *)
(* the real value, and the double the code computes (correct to about      *)
(* sixteen digits), lie between the bounds up to the double's own error.   *)

FixUlp == <<0, 0, 0, 0, 1>>
FixOne == <<0, 1, 0, 0, 0>>

\* the sum of the limb products x[i] * y[j] of weight 10000^(2 - p)
RECURSIVE FixCoefFrom(_, _, _, _)
FixCoefFrom(x, y, p, i) ==
    IF i > 5 THEN 0
    ELSE (IF p + 2 - i \in 1 .. 5 THEN x[i] * y[p + 2 - i] ELSE 0)
         + FixCoefFrom(x, y, p, i + 1)

\* the carry out of position p of the product
RECURSIVE FixCarry(_, _, _)
FixCarry(x, y, p) ==
    IF p > 8 THEN 0
    ELSE (FixCoefFrom(x, y, p, 1) + FixCarry(x, y, p + 1)) \div 10000

FixLimb(x, y, p) == (FixCoefFrom(x, y, p, 1) + FixCarry(x, y, p + 1)) % 10000

\* x * y rounded down to twelve fractional digits
FixMulDown(x, y) ==
    << 10000 * FixCoefFrom(x, y, 0, 1) + FixCoefFrom(x, y, 1, 1) + FixCarry(x, y, 2),
       FixLimb(x, y, 2), FixLimb(x, y, 3), FixLimb(x, y, 4), FixLimb(x, y, 5) >>

RECURSIVE FixAddCarry(_, _, _)
FixAddCarry(x, y, p) ==
    IF p > 5 THEN 0 ELSE (x[p] + y[p] + FixAddCarry(x, y, p + 1)) \div 10000

FixAddLimb(x, y, p) == (x[p] + y[p] + FixAddCarry(x, y, p + 1)) % 10000

\* x + y
FixAdd(x, y) ==
    << x[1] + y[1] + FixAddCarry(x, y, 2),
       FixAddLimb(x, y, 2), FixAddLimb(x, y, 3), FixAddLimb(x, y, 4),
       FixAddLimb(x, y, 5) >>

\* an upper bound of x * y
FixMulUp(x, y) == FixAdd(FixMulDown(x, y), FixUlp)

RECURSIVE FixLeFrom(_, _, _)
FixLeFrom(x, y, p) ==
    IF p > 5 THEN TRUE
    ELSE IF x[p] # y[p] THEN x[p] < y[p]
    ELSE FixLeFrom(x, y, p + 1)

\* x <= y
FixLe(x, y) == FixLeFrom(x, y, 1)

\* the rational q >= 0 (denominator below 200000) rounded down
FixDown(q) ==
    LET n == q[1]
        d == q[2]
        r0 == n % d
        r1 == (r0 * 10000) % d
        r2 == (r1 * 10000) % d
    IN  << (n \div d) \div 10000, (n \div d) % 10000,
           (r0 * 10000) \div d, (r1 * 10000) \div d, (r2 * 10000) \div d >>

\* an upper bound of the rational q
FixUp(q) == FixAdd(FixDown(q), FixUlp)

\* the fixed-point number x, of at most four fractional digits, as a rational
FixToRational(x) == Q((x[1] * 10000 + x[2]) * 10000 + x[3], 10000)

\* q with t units of the k-th decimal digit added: digits 1..4 are the
\* thousands to the units, digits 5..8 the first four decimals
FixWithDigit(q, k, t) ==
    LET unit == CASE (k - 1) % 4 = 0 -> 1000 [] (k - 1) % 4 = 1 -> 100
                  [] (k - 1) % 4 = 2 -> 10 [] OTHER -> 1
    IN  IF k <= 4 THEN [q EXCEPT ![2] = @ + t * unit]
        ELSE [q EXCEPT ![3] = @ + t * unit]

\* the largest t <= start for which q with digit t, times d, stays <= x
RECURSIVE FixDigit(_, _, _, _, _)
FixDigit(x, d, q, k, start) ==
    IF start = 0 THEN 0
    ELSE IF FixLe(FixMulUp(FixWithDigit(q, k, start), d), x) THEN start
    ELSE FixDigit(x, d, q, k, start - 1)

RECURSIVE FixDivFrom(_, _, _, _)
FixDivFrom(x, d, q, k) ==
    IF k > 8 THEN q
    ELSE FixDivFrom(x, d, FixWithDigit(q, k, FixDigit(x, d, q, k, 9)), k + 1)

\* x / d rounded down to four decimals, for a quotient below 10000
FixDivDown(x, d) == FixDivFrom(x, d, <<0, 0, 0, 0, 0>>, 1)

----------------------------------------------------------------------------
(* calculateMonthlyPI                                                      *)

\* calculateMonthlyPI whose guard lets a zero rate through (annualRate < 0)
calculateMonthlyPI_zeroRatePasses(principal, annualRate, loanTermYears) ==
    IF Le(principal, Zero) \/ Lt(annualRate, Zero) \/ Le(loanTermYears, Zero)
    THEN Zero
    ELSE LET monthlyRate == Div(annualRate, Whole(12))
             numberOfPayments == Mul(loanTermYears, Whole(12))
         IN  IF Eq(monthlyRate, Zero)
             THEN Div(principal, numberOfPayments)
             ELSE LET pw == MathPow(Add(One, monthlyRate), numberOfPayments)
                  IN  Div(Mul(principal, Mul(monthlyRate, pw)), Sub(pw, One))

\* calculateMonthlyPI that rounds the payment to whole cents
calculateMonthlyPI_cents(principal, annualRate, loanTermYears) ==
    IF Le(principal, Zero) \/ Le(annualRate, Zero) \/ Le(loanTermYears, Zero)
    THEN Zero
    ELSE LET monthlyRate == Div(annualRate, Whole(12))
             numberOfPayments == Mul(loanTermYears, Whole(12))
             pw == MathPow(Add(One, monthlyRate), numberOfPayments)
             p == Div(Mul(principal, Mul(monthlyRate, pw)), Sub(pw, One))
         IN  Q((2 * 100 * p[1] + p[2]) \div (2 * p[2]), 100)

calculateMonthlyPI(principal, annualRate, loanTermYears) ==
    IF Le(principal, Zero) \/ Le(annualRate, Zero) \/ Le(loanTermYears, Zero)
    THEN Zero
    ELSE LET monthlyRate == Div(annualRate, Whole(12))
             numberOfPayments == Mul(loanTermYears, Whole(12))
         IN  IF Eq(monthlyRate, Zero)
             THEN Div(principal, numberOfPayments)
             ELSE LET pw == MathPow(Add(One, monthlyRate), numberOfPayments)
                  IN  Div(Mul(principal, Mul(monthlyRate, pw)), Sub(pw, One))

----------------------------------------------------------------------------
(* calculateProforma: one operator per local constant of the function.     *)
(* a = assumptions, p = personal, s = scenario.                            *)

downPaymentAmount(a) == Mul(a.purchasePrice, a.downPaymentPercent)

\* loanAmount that finances the whole price
loanAmount_fullPrice(a) == a.purchasePrice

loanAmount(a) == Sub(a.purchasePrice, downPaymentAmount(a))

totalCashNeeded(a) ==
    Add(downPaymentAmount(a), Mul(a.purchasePrice, a.closingCostsPercent))

monthlyPI(a) == calculateMonthlyPI(loanAmount(a), a.interestRate, a.loanTerm)

annualMortgagePayment(a) == Mul(monthlyPI(a), Whole(12))

\* year-1 interest charged on the purchase price instead of the loan
year1Interest_onPrice(a) == Mul(a.purchasePrice, a.interestRate)

year1Interest(a) == Mul(loanAmount(a), a.interestRate)

year1Principal(a) == Sub(annualMortgagePayment(a), year1Interest(a))

annualPropertyTax(a) == Mul(a.purchasePrice, a.propertyTaxPercent)

annualHomeInsurance(a) == Mul(a.purchasePrice, a.homeInsurancePercent)

annualHOA(a) == Mul(a.monthlyHOA, Whole(12))

annualUtilities(a) == Mul(a.utilitiesMonthly, Whole(12))

depreciationBasis(a) == Mul(a.purchasePrice, Sub(One, a.landValuePercent))

\* 27.5 = 55/2
annualDepreciation(a) == Div(depreciationBasis(a), Q(55, 2))

combinedTaxRate(p) == Add(p.federalTaxRate, p.stateTaxRate)

opportunityCost(a, p) == Mul(totalCashNeeded(a), p.opportunityCostRate)

BaseProforma(a, p, s) ==
    [ scenario |-> s,
      totalCashNeeded |-> totalCashNeeded(a),
      annualPropertyTax |-> annualPropertyTax(a),
      annualHomeInsurance |-> annualHomeInsurance(a),
      annualHOA |-> annualHOA(a),
      annualUtilities |-> annualUtilities(a),
      opportunityCost |-> opportunityCost(a, p),
      year1Principal |-> year1Principal(a) ]

(* rental / airbnb branch *)

grossPotentialIncome(a, s) ==
    IF s = "rental" THEN Mul(a.monthlyRent, Whole(12))
    ELSE Mul(Mul(a.avgNightlyRate, Whole(365)), a.occupancyRate)

\* vacancy charged in the airbnb scenario as well
vacancyLoss_always(a, s) == Mul(grossPotentialIncome(a, s), a.vacancyPercent)

vacancyLoss(a, s) ==
    IF s = "rental" THEN Mul(grossPotentialIncome(a, s), a.vacancyPercent)
    ELSE Zero

effectiveGrossIncome(a, s) == Sub(grossPotentialIncome(a, s), vacancyLoss(a, s))

maintenance(a, s) == Mul(effectiveGrossIncome(a, s), a.maintenancePercent)

managementFee(a, s) == Mul(effectiveGrossIncome(a, s), a.mgmtFeePercent)

\* a platform fee charged in every scenario
platformFee_everyScenario(a, s) == Mul(effectiveGrossIncome(a, s), a.airbnbFeePercent)

platformFee(a, s) ==
    IF s = "airbnb" THEN Mul(effectiveGrossIncome(a, s), a.airbnbFeePercent)
    ELSE Zero

\* operating expenses that leave out the management fee
totalOpEx_noManagementFee(a, s) ==
    Add(Add(Add(Add(Add(annualPropertyTax(a), annualHomeInsurance(a)),
        annualHOA(a)), annualUtilities(a)), maintenance(a, s)), platformFee(a, s))

totalOpEx(a, s) ==
    Add(Add(Add(Add(Add(Add(annualPropertyTax(a), annualHomeInsurance(a)),
        annualHOA(a)), annualUtilities(a)), maintenance(a, s)),
        managementFee(a, s)), platformFee(a, s))

rentalTotalExpenses(a, p, s) ==
    Add(Add(totalOpEx(a, s), annualMortgagePayment(a)), opportunityCost(a, p))

\* net operating income that also deducts the mortgage payment
netOperatingIncome_afterDebt(a, s) ==
    Sub(Sub(effectiveGrossIncome(a, s), totalOpEx(a, s)), annualMortgagePayment(a))

netOperatingIncome(a, s) == Sub(effectiveGrossIncome(a, s), totalOpEx(a, s))

cashFlowBeforeTax(a, s) == Sub(netOperatingIncome(a, s), annualMortgagePayment(a))

deductibleExpenses(a, s) ==
    Add(Add(totalOpEx(a, s), year1Interest(a)), annualDepreciation(a))

netTaxableIncome(a, s) == Sub(effectiveGrossIncome(a, s), deductibleExpenses(a, s))

\* tax savings limited to a loss of 25,000 (a passive-activity-loss limit)
rentalTaxSavings_lossLimit(a, p, s) ==
    IF Lt(netTaxableIncome(a, s), Zero)
    THEN Mul(MathMin(MathAbs(netTaxableIncome(a, s)), Whole(25000)), combinedTaxRate(p))
    ELSE Zero

rentalTaxSavings(a, p, s) ==
    IF Lt(netTaxableIncome(a, s), Zero)
    THEN Mul(MathAbs(netTaxableIncome(a, s)), combinedTaxRate(p))
    ELSE Zero

taxesOwed(a, p, s) ==
    IF Gt(netTaxableIncome(a, s), Zero)
    THEN Mul(netTaxableIncome(a, s), combinedTaxRate(p))
    ELSE Zero

rentalTaxBenefit(a, p, s) == Sub(rentalTaxSavings(a, p, s), taxesOwed(a, p, s))

cashFlowAfterTax(a, p, s) == Add(cashFlowBeforeTax(a, s), rentalTaxBenefit(a, p, s))

\* capRate that reports 0 instead of dividing by a zero price
capRate_zeroAtZeroPrice(a, s) ==
    IF Eq(a.purchasePrice, Zero) THEN Zero
    ELSE Div(netOperatingIncome(a, s), a.purchasePrice)

capRate(a, s) == Div(netOperatingIncome(a, s), a.purchasePrice)

cashOnCashReturn(a, p, s) == Div(cashFlowAfterTax(a, p, s), totalCashNeeded(a))

cashFlowPerMonth(a, p, s) == Div(cashFlowAfterTax(a, p, s), Whole(12))

RentalProforma(a, p, s) ==
    [ scenario |-> s,
      totalCashNeeded |-> totalCashNeeded(a),
      annualPropertyTax |-> annualPropertyTax(a),
      annualHomeInsurance |-> annualHomeInsurance(a),
      annualHOA |-> annualHOA(a),
      annualUtilities |-> annualUtilities(a),
      opportunityCost |-> opportunityCost(a, p),
      year1Principal |-> year1Principal(a),
      grossPotentialIncome |-> grossPotentialIncome(a, s),
      vacancyLoss |-> vacancyLoss(a, s),
      effectiveGrossIncome |-> effectiveGrossIncome(a, s),
      totalOpEx |-> totalOpEx(a, s),
      maintenance |-> maintenance(a, s),
      managementFee |-> managementFee(a, s),
      platformFee |-> platformFee(a, s),
      annualMortgagePayment |-> annualMortgagePayment(a),
      totalExpenses |-> rentalTotalExpenses(a, p, s),
      cashFlowBeforeTax |-> cashFlowBeforeTax(a, s),
      year1Interest |-> year1Interest(a),
      annualDepreciation |-> annualDepreciation(a),
      netTaxableIncome |-> netTaxableIncome(a, s),
      taxBenefit |-> rentalTaxBenefit(a, p, s),
      cashFlowAfterTax |-> cashFlowAfterTax(a, p, s),
      capRate |-> capRate(a, s),
      cashOnCashReturn |-> cashOnCashReturn(a, p, s),
      cashFlowPerMonth |-> cashFlowPerMonth(a, p, s) ]

(* owner branch *)

grossAvoidedRent(a) == Mul(a.equivalentRent, Whole(12))

annualPITI(a) ==
    Add(Add(annualMortgagePayment(a), annualPropertyTax(a)), annualHomeInsurance(a))

totalAnnualCost(a) == Add(Add(annualPITI(a), annualHOA(a)), annualUtilities(a))

ownerTotalExpenses(a, p) == Add(totalAnnualCost(a), opportunityCost(a, p))

\* property tax deducted in full, without the cap
deductiblePropTax_uncapped(a) == annualPropertyTax(a)

deductiblePropTax(a) == MathMin(annualPropertyTax(a), Whole(10000))

deductibleInterest(a) == year1Interest(a)

totalDeductions(a) == Add(deductiblePropTax(a), deductibleInterest(a))

ownerTaxSavings(a, p) == Mul(totalDeductions(a), combinedTaxRate(p))

\* net annual cost that counts the opportunity cost as a cost
netAnnualCost_withOpportunityCost(a, p) ==
    Sub(ownerTotalExpenses(a, p), ownerTaxSavings(a, p))

netAnnualCost(a, p) == Sub(totalAnnualCost(a), ownerTaxSavings(a, p))

netBenefit(a, p) == Sub(grossAvoidedRent(a), netAnnualCost(a, p))

monthlyTotalCost(a) == Div(totalAnnualCost(a), Whole(12))

netMonthlyCost(a, p) == Div(netAnnualCost(a, p), Whole(12))

OwnerProforma(a, p, s) ==
    [ scenario |-> s,
      totalCashNeeded |-> totalCashNeeded(a),
      annualPropertyTax |-> annualPropertyTax(a),
      annualHomeInsurance |-> annualHomeInsurance(a),
      annualHOA |-> annualHOA(a),
      annualUtilities |-> annualUtilities(a),
      opportunityCost |-> opportunityCost(a, p),
      year1Principal |-> year1Principal(a),
      grossAvoidedRent |-> grossAvoidedRent(a),
      totalAnnualCost |-> totalAnnualCost(a),
      totalExpenses |-> ownerTotalExpenses(a, p),
      annualPITI |-> annualPITI(a),
      year1Interest |-> year1Interest(a),
      deductiblePropTax |-> deductiblePropTax(a),
      totalDeductions |-> totalDeductions(a),
      taxBenefit |-> ownerTaxSavings(a, p),
      netAnnualCost |-> netAnnualCost(a, p),
      netBenefit |-> netBenefit(a, p),
      monthlyTotalCost |-> monthlyTotalCost(a),
      netMonthlyCost |-> netMonthlyCost(a, p) ]

\* calculateProforma that hands back the result it returned last whenever that
\* result was for the same scenario
calculateProforma_staleByScenario(a, p, s) ==
    IF proforma.scenario = s THEN proforma
    ELSE IF s \in {"rental", "airbnb"} THEN RentalProforma(a, p, s)
    ELSE IF s = "owner" THEN OwnerProforma(a, p, s)
    ELSE BaseProforma(a, p, s)

\* calculateProforma whose owner branch leaves the closing costs out of its base
calculateProforma_ownerWithoutClosing(a, p, s) ==
    IF s = "rental" \/ s = "airbnb" THEN RentalProforma(a, p, s)
    ELSE IF s = "owner" THEN OwnerProforma([a EXCEPT !.closingCostsPercent = Zero], p, s)
    ELSE BaseProforma(a, p, s)

calculateProforma(a, p, s) ==
    IF s = "rental" \/ s = "airbnb" THEN RentalProforma(a, p, s)
    ELSE IF s = "owner" THEN OwnerProforma(a, p, s)
    ELSE BaseProforma(a, p, s)

----------------------------------------------------------------------------
(* formatCurrency and the display's expense breakdown                      *)

\* x rounded to a whole number, halves away from zero (Intl.NumberFormat's
\* default rounding with maximumFractionDigits 0); an infinity stays infinite
RoundHalfExpand(x) ==
    IF ~IsFinite(x) THEN x
    ELSE Whole(Sign(x[1]) * ((2 * Abs(x[1]) + x[2]) \div (2 * x[2])))

\* the whole-dollar amount formatCurrency prints (NaN prints as 0)
formatCurrency(amount) ==
    IF IsNaN(amount) THEN Zero ELSE RoundHalfExpand(amount)

\* the amounts printed on the lines of the "Expense Breakdown" drill-down,
\* in order, without the closing Total Expenses line
ExpenseBreakdownLines(pf, s) ==
    << formatCurrency(pf.annualPropertyTax),
       formatCurrency(pf.annualHomeInsurance),
       formatCurrency(pf.annualHOA),
       formatCurrency(pf.annualUtilities),
       formatCurrency(pf.maintenance),
       formatCurrency(pf.managementFee) >>
    \o (IF s = "airbnb" THEN << formatCurrency(pf.platformFee) >> ELSE << >>)
    \o << formatCurrency(pf.year1Interest),
          formatCurrency(pf.year1Principal),
          formatCurrency(pf.opportunityCost) >>

\* the amount printed on the "Total Expenses" line
ExpenseBreakdownTotal(pf) == formatCurrency(pf.totalExpenses)

----------------------------------------------------------------------------
(* defaults.ts                                                             *)

defaultAssumptions ==
    [ purchasePrice |-> Whole(500000),
      downPaymentPercent |-> Q(20, 100),
      interestRate |-> Q(65, 1000),
      loanTerm |-> Whole(30),
      closingCostsPercent |-> Q(3, 100),
      landValuePercent |-> Q(20, 100),
      monthlyRent |-> Whole(3000),
      vacancyPercent |-> Q(5, 100),
      avgNightlyRate |-> Whole(250),
      occupancyRate |-> Q(65, 100),
      airbnbFeePercent |-> Q(3, 100),
      equivalentRent |-> Whole(3200),
      propertyTaxPercent |-> Q(12, 1000),
      homeInsurancePercent |-> Q(4, 1000),
      monthlyHOA |-> Whole(50),
      maintenancePercent |-> Q(8, 100),
      utilitiesMonthly |-> Whole(200),
      mgmtFeePercent |-> Q(10, 100) ]

defaultPersonal ==
    [ federalTaxRate |-> Q(24, 100),
      stateTaxRate |-> Q(5, 100),
      opportunityCostRate |-> Q(7, 100) ]

----------------------------------------------------------------------------
(* The seeded generator: seededRandom, generateSeed, simulatePropertyData  *)
(*                                                                         *)
(* Math.sin is tabulated for the whole seeds 2091 .. 2800, to five         *)
(* decimals rounded down, so x = Math.sin(seed) * 10000 is known to one    *)
(* decimal and the fractional part x - floor(x) is one of 0, 0.1, ..., 0.9.*)
(* A Property is [address, beds, baths, year] with the address a sequence  *)
(* of character codes and the three numbers rationals.                     *)

\* floor(Math.sin(seed) * 100000) for seed = 2091, 2092, ..., 2800
MathSinTable ==
    << -96375, -29620, 64367, 99175, 42801, -52924, -99992, -55128, 40420, 98805,
       66349, -27108, -95643, -76245, 13253, 90565, 84612, 867, -83676, -91288,
       -14970, 75110, 96134, 28773, -65043, -99059, -42001, 53672, 99999, 54386,
       -41229, -98939, -65686, 27958, 95897, 75668, -14130, -90938, -84138, 18,
       84156, 90922, 14094, -75693, -95888, -27925, 65712, 98933, 41195, -54418,
       -99999, -53643, 42033, 99063, 65015, -28808, -96145, -75087, 15005, 91301,
       83655, -904, -84632, -90551, -13218, 76267, 95632, 27073, -66377, -98801,
       -40388, 55157, 99990, 52892, -42835, -99181, -64340, 29654, 96384, 74499,
       -15881, -91660, -83168, 1788, 85099, 90171, 12339, -76838, -95370, -26221,
       67036, 98659, 39575, -55894, -99976, -52140, 43632, 99289, 63659, -30499,
       -96617, -73906, 16753, 92009, 82672, -2674, -85562, -89785, -11461, 77400,
       95099, 25364, -67691, -98512, -38762, 56625, 99951, 51382, -44428, -99391,
       -62975, 31340, 96840, 73306, -17626, -92353, -82172, 3557, 86016, 89391,
       10580, -77958, -94823, -24508, 68339, 98355, 37944, -57354, -99920, -50621,
       45218, 99484, 62284, -32180, -97058, -72702, 18495, 92688, 81663, -4443,
       -86465, -88992, -9701, 78509, 94537, 23648, -68983, -98192, -37124, 58075,
       99880, 49855, -46007, -99571, -61590, 33016, 97267, 72091, -19366, -93018,
       -81150, 5326, 86905, 88584, 8818, -79055, -94246, -22788, 69620, 98020,
       36300, -58795, -99834, -49087, 46790, 99648, 60890, -33851, -97469, -71475,
       20232, 93338, 80629, -6211, -87341, -88170, -7937, 79593, 93945, 21924,
       -70254, -97842, -35475, 59507, 99778, 48313, -47571, -99719, -60186, 34681,
       97662, 70853, -21099, -93653, -80103, 7093, 87767, 87748, 7054, -80127,
       -93639, -21061, 70880, 97654, 34645, -60217, -99716, -47537, 48347, 99781,
       59476, -35511, -97850, -70226, 21963, 93959, 79569, -7976, -88189, -87321,
       -6171, 80652, 93324, 20194, -71503, -97461, -33814, 60921, 99645, 46755,
       -49121, -99836, -58763, 36336, 98028, 69592, -22826, -94259, -79031, 8857,
       88602, 86886, 5287, -81173, -93003, -19327, 72118, 97258, 32979, -61621,
       -99567, -45972, 49889, 99882, 58043, -37161, -98200, -68955, 23686, 94550,
       78484, -9740, -89010, -86445, -4404, 81686, 92673, 18457, -72729, -97049,
       -32143, 62315, 99480, 45183, -50655, -99922, -57321, 37980, 98362, 68310,
       -24546, -94835, -77934, 10619, 89409, 85996, 3518, -82194, -92338, -17587,
       73333, 96831, 31302, -63006, -99387, -44393, 51415, 99952, 56593, -38798,
       -98519, -67662, 25402, 95111, 77375, -11500, -89803, -85542, -2635, 82694,
       91994, 16714, -73933, -96607, -30461, 63690, 99284, 43597, -52174, -99976,
       -55862, 39611, 98666, 67007, -26258, -95382, -76812, 12378, 90187, 85079,
       1749, -83190, -91644, -15842, 74525, 96373, 29616, -64370, -99176, -42800,
       52926, 99991, 55125, -40424, -98807, -66348, 27110, 95643, 76242, -13257,
       -90567, -84611, -865, 83677, 91285, 14966, -75113, -96134, -28771, 65044,
       99057, 41997, -53676, -100000, -54385, 41231, 98938, 65682, -27962, -95899,
       -75667, 14132, 90938, 84135, -22, -84159, -90921, -14092, 75694, 95886,
       27921, -65715, -98933, -41193, 54419, 99998, 53639, -42036, -99064, -65013,
       28810, 96145, 75084, -15009, -91304, -83655, 906, 84633, 90548, 13214,
       -76270, -95632, -27071, 66379, 98799, 40384, -55161, -99991, -52891, 42837,
       99180, 64337, -29658, -96386, -74498, 15883, 91660, 83165, -1792, -85102,
       -90170, -12337, 76838, 95368, 26217, -67039, -98660, -39574, 55896, 99975,
       52137, -43636, -99290, -63658, 30501, 96617, 73903, -16757, -92011, -82671,
       2676, 85562, 89783, 11457, -77403, -95099, -25362, 67692, 98511, 38758,
       -56629, -99952, -51380, 44430, 99391, 62972, -31343, -96842, -73305, 17628,
       92353, 82169, -3561, -86018, -89391, -10578, 77959, 94821, 24504, -68342,
       -98355, -37942, 57355, 99919, 50618, -45222, -99485, -62283, 32182, 97058,
       72699, -18499, -92690, -81663, 4445, 86465, 88989, 9697, -78512, -94537,
       -23646, 68985, 98191, 37120, -58079, -99881, -49854, 46009, 99570, 61587,
       -33020, -97268, -72090, 19368, 93018, 81148, -5330, -86908, -88583, -8816,
       79056, 94244, 22784, -69624, -98020, -36298, 58796, 99833, 49083, -46794,
       -99649, -60888, 33853, 97469, 71472, -20236, -93340, -80628, 6213, 87341,
       88168, 7933, -79596, -93945, -21922, 70255, 97840, 35471, -59511, -99779,
       -48311, 47573, 99718, 60183, -34685, -97664, -70852, 21101, 93653, 80100,
       -7097, -87770, -87748, -7052, 80127, 93637, 21057, -70883, -97654, -34643,
       60219, 99715, 47533, -48351, -99782, -59474, 35513, 97850, 70223, -21967,
       -93961, -79568, 7978, 88189, 87319, 6167, -80655, -93324, -20192, 71504,
       97459, 33810, -60924, -99645, -46754, 49123, 99835, 58759, -36340, -98029,
       -69591, 22828, 94259, 79028, -8861, -88604, -86885, -5285, 81174, 93001,
       19323, -72121, -97258, -32977, 61623, 99566, 45968, -49893, -99883, -58042,
       37162, 98199, 68952, -23690, -94552, -78484, 9742, 89010, 86443, 4400,
       -81689, -92673, -18455, 72730, 97047, 32139, -62318, -99481, -45182, 50657,
       99921, 57318, -37984, -98364, -68309, 24548, 94835, 77931, -10623, -89411,
       -85995, -3516, 82195, 92336, 17583, -73336, -96831, -31300, 63007, 99386,
       44389, -51419, -99953, -56591, 38800, 98518, 67659, -25406, -95113, -77374,
       11502, 89803, 85539, 2631, -82697, -91994, -16712, 73934, 96605, 30458,
       -63693, -99285, -43595, 52175, 99976, 55858, -39615, -98667, -67006, 26260,
       95382, 76810, -12382, -90190, -85078, -1747, 83190, 91642, 15838, -74528 >>

\* Math.sin for a whole seed of the table
MathSin(seed) == Q(MathSinTable[seed[1] - 2090], 100000)

\* Math.floor
MathFloor(x) == IF IsFinite(x) THEN Whole(x[1] \div x[2]) ELSE x

\* Math.round: the nearest whole number, a half rounding up
MathRound(x) == MathFloor(Add(x, Q(1, 2)))

\* seededRandom that takes the fractional part by truncating towards zero
seededRandom_truncates(seed, min, max) ==
    LET x == Mul(MathSin(seed), Whole(10000))
        truncated == IF Lt(x, Zero) THEN Neg(MathFloor(Neg(x))) ELSE MathFloor(x)
    IN  Add(min, Mul(Sub(x, truncated), Sub(max, min)))

seededRandom(seed, min, max) ==
    LET x == Mul(MathSin(seed), Whole(10000))
        random == Sub(x, MathFloor(x))
    IN  Add(min, Mul(random, Sub(max, min)))

\* the sum of the character codes of an address
RECURSIVE addressHash(_)
addressHash(address) ==
    IF address = << >> THEN 0 ELSE Head(address) + addressHash(Tail(address))

\* a hash that weighs every character code by its position
RECURSIVE addressHash_positional(_)
addressHash_positional(address) ==
    IF address = << >> THEN 0
    ELSE Len(address) * Head(address) + addressHash_positional(Tail(address))

\* generateSeed over the positional hash
generateSeed_positional(prop) ==
    Add(Add(Add(Whole(addressHash_positional(prop.address)), Mul(prop.beds, Whole(100))),
            Mul(prop.baths, Whole(50))), prop.year)

generateSeed(prop) ==
    Add(Add(Add(Whole(addressHash(prop.address)), Mul(prop.beds, Whole(100))),
            Mul(prop.baths, Whole(50))), prop.year)

\* seed + k
Offset(seed, k) == Add(seed, Whole(k))

\* propertyAge read off the calendar instead of the constant 2024
propertyAge_fromClock(prop) == Sub(Whole(clock), prop.year)

propertyAge(prop) == Sub(Whole(2024), prop.year)

\* a price built on the bedrooms alone
calculateRealisticPrice_bedsOnly(prop, seed) ==
    LET basePricePerBed == seededRandom(Offset(seed, 1), Whole(80000), Whole(120000))
        marketMultiplier == seededRandom(Offset(seed, 8), Q(85, 100), Q(135, 100))
        finalPrice == Mul(Mul(basePricePerBed, prop.beds), marketMultiplier)
    IN  Mul(MathRound(Div(finalPrice, Whole(5000))), Whole(5000))

calculateRealisticPrice(prop, seed) ==
    LET basePricePerBed == seededRandom(Offset(seed, 1), Whole(80000), Whole(120000))
        basePricePerBath == seededRandom(Offset(seed, 2), Whole(35000), Whole(55000))
        ageFactor ==
            IF Lt(propertyAge(prop), Whole(5))
            THEN seededRandom(Offset(seed, 3), Q(115, 100), Q(125, 100))
            ELSE IF Lt(propertyAge(prop), Whole(15))
            THEN seededRandom(Offset(seed, 4), Q(105, 100), Q(115, 100))
            ELSE IF Lt(propertyAge(prop), Whole(30))
            THEN seededRandom(Offset(seed, 5), Q(95, 100), Q(105, 100))
            ELSE IF Lt(propertyAge(prop), Whole(50))
            THEN seededRandom(Offset(seed, 6), Q(80, 100), Q(95, 100))
            ELSE seededRandom(Offset(seed, 7), Q(70, 100), Q(90, 100))
        basePrice == Add(Mul(basePricePerBed, prop.beds), Mul(basePricePerBath, prop.baths))
        marketMultiplier == seededRandom(Offset(seed, 8), Q(85, 100), Q(135, 100))
        finalPrice == Mul(Mul(basePrice, ageFactor), marketMultiplier)
    IN  Mul(MathRound(Div(finalPrice, Whole(5000))), Whole(5000))

calculateRealisticRent(purchasePrice, prop, seed) ==
    LET rentRatioBase == seededRandom(Offset(seed, 10), Q(45, 10000), Q(75, 10000))
        sizeAdjustment ==
            IF Le(Whole(4), prop.beds)
            THEN seededRandom(Offset(seed, 11), Q(90, 100), Q(95, 100))
            ELSE IF Le(prop.beds, Whole(2))
            THEN seededRandom(Offset(seed, 12), Q(105, 100), Q(115, 100))
            ELSE One
        baseRent == Mul(Mul(purchasePrice, rentRatioBase), sizeAdjustment)
    IN  Mul(MathRound(Div(baseRent, Whole(50))), Whole(50))

calculateAirbnbRate(monthlyRent, prop, seed) ==
    LET dailyRentEquivalent == Div(monthlyRent, Whole(30))
        airbnbMultiplier == seededRandom(Offset(seed, 20), Q(23, 10), Q(32, 10))
        bedroomBonus ==
            IF Le(Whole(3), prop.beds)
            THEN seededRandom(Offset(seed, 21), Q(105, 100), Q(115, 100))
            ELSE One
        nightlyRate == Mul(Mul(dailyRentEquivalent, airbnbMultiplier), bedroomBonus)
    IN  Mul(MathRound(Div(nightlyRate, Whole(5))), Whole(5))

calculateOccupancyRate(seed) == seededRandom(Offset(seed, 25), Q(55, 100), Q(75, 100))

calculatePropertyTax(seed) == seededRandom(Offset(seed, 30), Q(8, 1000), Q(15, 1000))

calculateHomeInsurance(purchasePrice, seed) ==
    LET baseRate == seededRandom(Offset(seed, 35), Q(2, 1000), Q(6, 1000))
        priceAdjustment ==
            IF Gt(purchasePrice, Whole(600000))
            THEN seededRandom(Offset(seed, 36), Q(85, 100), Q(95, 100))
            ELSE IF Lt(purchasePrice, Whole(250000))
            THEN seededRandom(Offset(seed, 37), Q(105, 100), Q(120, 100))
            ELSE One
    IN  Mul(baseRate, priceAdjustment)

calculateHOA(prop, seed) ==
    LET hasHOA == Gt(seededRandom(Offset(seed, 40), Zero, One), Q(4, 10))
        hoaRange ==
            IF Lt(propertyAge(prop), Whole(10)) THEN <<Whole(150), Whole(400)>>
            ELSE IF Lt(propertyAge(prop), Whole(20)) THEN <<Whole(100), Whole(300)>>
            ELSE <<Whole(50), Whole(200)>>
        monthlyHOA == seededRandom(Offset(seed, 41), hoaRange[1], hoaRange[2])
    IN  IF ~hasHOA THEN Zero
        ELSE Mul(MathRound(Div(monthlyHOA, Whole(25))), Whole(25))

calculateUtilities(prop, seed) ==
    LET baseUtilities == seededRandom(Offset(seed, 45), Whole(100), Whole(150))
        bedroomCost == Mul(prop.beds, seededRandom(Offset(seed, 46), Whole(25), Whole(40)))
        bathroomCost == Mul(prop.baths, seededRandom(Offset(seed, 47), Whole(15), Whole(25)))
        totalUtilities == Add(Add(baseUtilities, bedroomCost), bathroomCost)
    IN  Mul(MathRound(Div(totalUtilities, Whole(10))), Whole(10))

calculateInterestRate(seed) ==
    LET rate == seededRandom(Offset(seed, 50), Q(625, 10000), Q(750, 10000))
    IN  Mul(MathRound(Div(rate, Q(125, 100000))), Q(125, 100000))

\* a down payment rounded to the nearest 1%
calculateDownPayment_toPercent(prop, seed) ==
    LET downPayment == seededRandom(Offset(seed, 55), Q(15, 100), Q(25, 100))
    IN  Mul(MathRound(Div(downPayment, Q(1, 100))), Q(1, 100))

calculateDownPayment(prop, seed) ==
    LET downPayment == seededRandom(Offset(seed, 55), Q(15, 100), Q(25, 100))
    IN  Mul(MathRound(Div(downPayment, Q(5, 100))), Q(5, 100))

simulatePropertyData(prop) ==
    LET seed == generateSeed(prop)
        purchasePrice == calculateRealisticPrice(prop, seed)
        monthlyRent == calculateRealisticRent(purchasePrice, prop, seed)
        equivalentRent ==
            Mul(MathRound(Div(Mul(monthlyRent,
                                  seededRandom(Offset(seed, 60), Q(105, 100), Q(115, 100))),
                              Whole(50))), Whole(50))
    IN  [ defaultAssumptions EXCEPT
            !.purchasePrice = purchasePrice,
            !.downPaymentPercent = calculateDownPayment(prop, seed),
            !.interestRate = calculateInterestRate(seed),
            !.loanTerm = Whole(30),
            !.closingCostsPercent = seededRandom(Offset(seed, 65), Q(25, 1000), Q(40, 1000)),
            !.landValuePercent = seededRandom(Offset(seed, 70), Q(20, 100), Q(35, 100)),
            !.monthlyRent = monthlyRent,
            !.vacancyPercent = seededRandom(Offset(seed, 75), Q(4, 100), Q(8, 100)),
            !.avgNightlyRate = calculateAirbnbRate(monthlyRent, prop, seed),
            !.occupancyRate = calculateOccupancyRate(seed),
            !.airbnbFeePercent = seededRandom(Offset(seed, 90), Q(3, 100), Q(5, 100)),
            !.equivalentRent = equivalentRent,
            !.propertyTaxPercent = calculatePropertyTax(seed),
            !.homeInsurancePercent = calculateHomeInsurance(purchasePrice, seed),
            !.monthlyHOA = calculateHOA(prop, seed),
            !.maintenancePercent = seededRandom(Offset(seed, 80), Q(6, 100), Q(12, 100)),
            !.utilitiesMonthly = calculateUtilities(prop, seed),
            !.mgmtFeePercent = seededRandom(Offset(seed, 85), Q(8, 100), Q(12, 100)) ]

----------------------------------------------------------------------------
(* Bounds and input sets                                                   *)

MaxPrincipalHundreds == 2
MaxTermQuarters == 3

\* principals -100, 0, 100, ...
Principals == { Whole(100 * k) : k \in -1 .. MaxPrincipalHundreds }

\* annual rates -600%, 0, 600%, 1200%: monthly rates -1/2, 0, 1/2, 1
HighRates == { Whole(-6), Zero, Whole(6), Whole(12) }

\* terms of -1/4, 0, 1/4, 1/2, ... years: 3, 6, ... monthly payments
QuarterTerms == { Q(k, 4) : k \in -1 .. MaxTermQuarters }

\* annual rates 6% and 12% with one, two or three monthly payments
LowRates == { Q(6, 100), Q(12, 100) }
MonthTerms == { Q(1, 12), Q(2, 12), Q(3, 12) }

\* NaN and the infinities, used only beside a non-positive argument
NonFinite == { NaN, PosInf, NegInf }

\* a one-year term: 12 monthly payments
YearTerms == { Whole(1) }

MonthlyPIArgs ==
    { [principal |-> p, annualRate |-> r, loanTermYears |-> t] :
        p \in Principals, r \in HighRates, t \in QuarterTerms \cup YearTerms }
    \cup
    { [principal |-> p, annualRate |-> r, loanTermYears |-> t] :
        p \in Principals, r \in LowRates, t \in MonthTerms }
    \cup
    { [principal |-> p, annualRate |-> r, loanTermYears |-> t] :
        p \in NonFinite, r \in { Whole(-6), Zero }, t \in NonFinite \cup YearTerms }
    \cup
    { [principal |-> p, annualRate |-> r, loanTermYears |-> t] :
        p \in { Whole(-100), Zero }, r \in NonFinite, t \in NonFinite \cup YearTerms }

NoProforma == [scenario |-> "none"]

\* the values the variables hold while the part they belong to is not in use
NoProperty == [property |-> "null"]
NoAssumptions == [assumptions |-> "none"]
NoSeeded == [seed |-> Zero, min |-> Zero, max |-> Zero]
NoPower == [exponent |-> 0]

IdleMonthlyPI ==
    /\ mpi = [principal |-> Zero, annualRate |-> Zero, loanTermYears |-> Zero]
    /\ payment = NaN

IdleEngine ==
    /\ assumptions = defaultAssumptions
    /\ personal = defaultPersonal
    /\ scenario = "rental"
    /\ proforma = NoProforma

IdleGenerator ==
    /\ property = NoProperty
    /\ simulated = NoAssumptions
    /\ seeded = NoSeeded
    /\ drawn = NaN

IdleApp ==
    /\ initialAssumptions = defaultAssumptions
    /\ isDarkMode = FALSE
    /\ showAssumptions = FALSE
    /\ edits = 0

----------------------------------------------------------------------------
(* Specification of calculateMonthlyPI as a pure function                  *)

InitPI ==
    /\ pc = "args"
    /\ mpi \in MonthlyPIArgs
    /\ payment = NaN
    /\ IdleEngine
    /\ calls = {}
    /\ clock = 2024
    /\ IdleGenerator
    /\ power = NoPower
    /\ IdleApp

CallMonthlyPI ==
    /\ pc = "args"
    /\ payment' = calculateMonthlyPI(mpi.principal, mpi.annualRate, mpi.loanTermYears)
    /\ pc' = "returned"
    /\ UNCHANGED <<mpi, engineVars, calls, clock, generatorVars, power, appVars>>

NextPI == CallMonthlyPI

SpecPI == InitPI /\ [][NextPI]_vars

----------------------------------------------------------------------------
(* Specification of calculateProforma as a pure function                   *)

MaxPriceUnits == 2

\* purchase prices 0, 275,000, 550,000, ...
Prices == { Whole(275000 * k) : k \in 0 .. MaxPriceUnits }

ProformaAssumptions ==
    { [defaultAssumptions EXCEPT
          !.purchasePrice = price,
          !.downPaymentPercent = down,
          !.interestRate = rate,
          !.loanTerm = term,
          !.closingCostsPercent = closing,
          !.monthlyRent = rent,
          !.vacancyPercent = vacancy,
          !.monthlyHOA = fees[1],
          !.utilitiesMonthly = fees[2],
          !.propertyTaxPercent = tax] :
        price \in Prices,
        down \in { Zero, Q(20, 100) },
        rate \in { Zero, Q(6, 100) },
        term \in { Zero, Q(1, 12) },
        closing \in { Zero, Q(3, 100) },
        rent \in { Zero, Whole(3005) },
        vacancy \in { Zero, Q(5, 100) },
        fees \in { <<Zero, Zero>>, <<Whole(50), Whole(200)>> },
        tax \in { Q(12, 1000), Q(24, 1000) } }

\* the default profile with a federal rate of 20%: combined rate 25%
ProformaPersonal == { [defaultPersonal EXCEPT !.federalTaxRate = Q(20, 100)] }

Scenarios == { "rental", "airbnb", "owner" }

InitProforma ==
    /\ pc = "args"
    /\ assumptions \in ProformaAssumptions
    /\ personal \in ProformaPersonal
    /\ scenario \in Scenarios
    /\ proforma = NoProforma
    /\ IdleMonthlyPI
    /\ calls = {}
    /\ clock = 2024
    /\ IdleGenerator
    /\ power = NoPower
    /\ IdleApp

\* one call of calculateProforma, entered in the record of calls
CallProforma ==
    /\ pc = "args"
    /\ proforma' = calculateProforma(assumptions, personal, scenario)
    /\ calls' = calls \cup { [assumptions |-> assumptions, personal |-> personal,
                               scenario |-> scenario, result |-> proforma'] }
    /\ pc' = "returned"
    /\ UNCHANGED <<assumptions, personal, scenario, piVars, clock, generatorVars,
                   power, appVars>>

NextProforma == CallProforma

SpecProforma == InitProforma /\ [][NextProforma]_vars

----------------------------------------------------------------------------
(* Claims about calculateMonthlyPI, checked under SpecPI                   *)

Returned == pc = "returned"

\* the number of monthly payments of the call, termYears x 12
Payments == Mul(mpi.loanTermYears, Whole(12))

\* the loan balance after k more payments of pmt at monthly rate r
RECURSIVE BalanceAfter(_, _, _, _)
BalanceAfter(balance, r, pmt, k) ==
    IF k = 0 THEN balance
    ELSE BalanceAfter(Sub(Mul(balance, Add(One, r)), pmt), r, pmt, k - 1)

\* C1 (as claimed): with a finite principal > 0, a finite term > 0 and
\* annualRate = 0 the payment returned is the straight-line payment
\* principal / numberOfPayments.
C1_ZeroRateIsStraightLine ==
    (Returned /\ IsFinite(mpi.principal) /\ IsFinite(mpi.loanTermYears)
        /\ Gt(mpi.principal, Zero) /\ Gt(mpi.loanTermYears, Zero)
        /\ Eq(mpi.annualRate, Zero))
    => Eq(payment, Div(mpi.principal, Payments))

\* C2: calculateMonthlyPI returns exactly 0 (a finite number) whenever any
\* one of principal, annualRate, loanTermYears is non-positive.
C2_NonPositiveArgumentGivesZero ==
    (Returned /\ (Le(mpi.principal, Zero) \/ Le(mpi.annualRate, Zero)
                    \/ Le(mpi.loanTermYears, Zero)))
    => (payment = Zero /\ IsFinite(payment))

\* C2 witness: a returned call whose only non-positive argument is the rate.
C2_Witness ==
    /\ Returned
    /\ Gt(mpi.principal, Zero)
    /\ Eq(mpi.annualRate, Zero)
    /\ Gt(mpi.loanTermYears, Zero)

\* C3: for principal, rate and term all positive the payment is the
\* level-payment annuity value P*r*(1+r)^n / ((1+r)^n - 1), r = annualRate/12,
\* n = termYears*12, unrounded: n payments of it at rate r repay the loan
\* exactly (the balance after the n-th payment is 0).
C3_LevelPaymentAnnuity ==
    (Returned /\ Gt(mpi.principal, Zero) /\ Gt(mpi.annualRate, Zero)
        /\ Gt(mpi.loanTermYears, Zero))
    => LET r == Div(mpi.annualRate, Whole(12))
           n == Payments[1]
           growth == PowNat(Add(One, r), n)
       IN  /\ Eq(payment, Div(Mul(Mul(mpi.principal, r), growth), Sub(growth, One)))
           /\ BalanceAfter(mpi.principal, r, payment, n) = Zero

\* C3 witness: a returned call with twelve payments at a positive rate whose
\* payment is not a whole number of cents.
C3_Witness ==
    /\ Returned
    /\ Gt(mpi.principal, Zero)
    /\ Gt(mpi.annualRate, Zero)
    /\ Payments = Whole(12)
    /\ Mul(payment, Whole(100))[2] # 1

----------------------------------------------------------------------------
(* Claims about calculateProforma, checked under SpecProforma              *)

IsRentalResult == Returned /\ proforma.scenario \in {"rental", "airbnb"}
IsOwnerResult == Returned /\ proforma.scenario = "owner"

\* the loan and the annual mortgage payment, from the inputs of the call
InLoan ==
    Sub(assumptions.purchasePrice,
        Mul(assumptions.purchasePrice, assumptions.downPaymentPercent))
InAnnualPayment ==
    Mul(calculateMonthlyPI(InLoan, assumptions.interestRate, assumptions.loanTerm),
        Whole(12))
InCombinedRate == Add(personal.federalTaxRate, personal.stateTaxRate)

RECURSIVE SumSeq(_)
SumSeq(xs) == IF xs = << >> THEN Zero ELSE Add(Head(xs), SumSeq(Tail(xs)))

\* C4: in every scenario year1Interest = loanAmount x interestRate (flat),
\* year1Principal = annualMortgagePayment - year1Interest, and the two add up
\* to the annual payment, 12 x the monthly payment on price - price x down.
C4_Year1InterestAndPrincipal ==
    (Returned /\ proforma.scenario \in Scenarios)
    => /\ Eq(proforma.year1Interest, Mul(InLoan, assumptions.interestRate))
       /\ Eq(proforma.year1Principal, Sub(InAnnualPayment, proforma.year1Interest))
       /\ Eq(Add(proforma.year1Interest, proforma.year1Principal), InAnnualPayment)
       /\ (proforma.scenario # "owner"
            => Eq(proforma.annualMortgagePayment, InAnnualPayment))

\* C4 witness: an owner result for a financed purchase with a positive rate
\* and term, so both year-1 interest and the payment are positive.
C4_Witness ==
    /\ IsOwnerResult
    /\ Gt(InLoan, Zero)
    /\ Lt(InLoan, assumptions.purchasePrice)
    /\ Gt(proforma.year1Interest, Zero)
    /\ Gt(InAnnualPayment, Zero)

\* C5 (as claimed): for every rental or airbnb proforma
\* effectiveGrossIncome - totalOpEx = capRate x purchasePrice,
\* cashFlowBeforeTax + taxBenefit = cashFlowAfterTax and
\* cashFlowBeforeTax = (effectiveGrossIncome - totalOpEx) - annualMortgagePayment.
C5_Original ==
    IsRentalResult
    => LET noi == Sub(proforma.effectiveGrossIncome, proforma.totalOpEx)
       IN  /\ Eq(noi, Mul(proforma.capRate, assumptions.purchasePrice))
           /\ Eq(Add(proforma.cashFlowBeforeTax, proforma.taxBenefit),
                 proforma.cashFlowAfterTax)
           /\ Eq(proforma.cashFlowBeforeTax, Sub(noi, proforma.annualMortgagePayment))

\* C5 (amended): the two cash-flow identities hold for every rental or airbnb
\* proforma; effectiveGrossIncome - totalOpEx = capRate x purchasePrice holds
\* when purchasePrice is not 0, and at purchasePrice = 0 capRate is NaN or an
\* infinity.
C5_NetOperatingIncomeIdentities ==
    IsRentalResult
    => LET noi == Sub(proforma.effectiveGrossIncome, proforma.totalOpEx)
       IN  /\ IF assumptions.purchasePrice # Zero
              THEN Eq(noi, Mul(proforma.capRate, assumptions.purchasePrice))
              ELSE ~IsFinite(proforma.capRate)
           /\ Eq(Add(proforma.cashFlowBeforeTax, proforma.taxBenefit),
                 proforma.cashFlowAfterTax)
           /\ Eq(proforma.cashFlowBeforeTax, Sub(noi, proforma.annualMortgagePayment))

\* C5 witness: an airbnb result at a positive price with a mortgage payment
\* and a non-zero tax benefit.
C5_Witness ==
    /\ IsRentalResult
    /\ proforma.scenario = "airbnb"
    /\ Gt(assumptions.purchasePrice, Zero)
    /\ Gt(proforma.annualMortgagePayment, Zero)
    /\ proforma.taxBenefit # Zero
    /\ IsFinite(proforma.capRate)

\* C6: for rental and airbnb, netTaxableIncome = effectiveGrossIncome -
\* (totalOpEx + year1Interest + annualDepreciation) with annualDepreciation =
\* price x (1 - landValuePercent) / 27.5, and taxBenefit is |income| x rate
\* for a loss, -(income x rate) for a gain, 0 at 0: always
\* -netTaxableIncome x (federalTaxRate + stateTaxRate), with no loss limit.
C6_TaxBenefit ==
    IsRentalResult
    => LET nti == proforma.netTaxableIncome
       IN  /\ Eq(proforma.annualDepreciation,
                 Div(Mul(assumptions.purchasePrice,
                         Sub(One, assumptions.landValuePercent)), Q(275, 10)))
           /\ Eq(nti, Sub(proforma.effectiveGrossIncome,
                          Add(Add(proforma.totalOpEx, proforma.year1Interest),
                              proforma.annualDepreciation)))
           /\ (Lt(nti, Zero)
                => Eq(proforma.taxBenefit, Mul(MathAbs(nti), InCombinedRate)))
           /\ (Gt(nti, Zero)
                => Eq(proforma.taxBenefit, Neg(Mul(nti, InCombinedRate))))
           /\ (Eq(nti, Zero) => Eq(proforma.taxBenefit, Zero))
           /\ Eq(proforma.taxBenefit, Mul(Neg(nti), InCombinedRate))

\* C6 witness: a rental result with a taxable loss above 25,000, whose whole
\* amount earns the tax benefit.
C6_Witness ==
    /\ IsRentalResult
    /\ Lt(proforma.netTaxableIncome, Whole(-25000))
    /\ Gt(proforma.taxBenefit, Mul(Whole(25000), InCombinedRate))

\* C6, the other two cases are reached as well: a taxable gain (tax owed)
\* and a taxable income of exactly 0.
C6_GainReached == IsRentalResult /\ Gt(proforma.netTaxableIncome, Zero)
C6_ZeroReached == IsRentalResult /\ Eq(proforma.netTaxableIncome, Zero)

\* C7: rental: grossPotentialIncome = monthlyRent x 12 and vacancyLoss =
\* grossPotentialIncome x vacancyPercent; airbnb: grossPotentialIncome =
\* avgNightlyRate x 365 x occupancyRate, vacancyLoss = 0 and
\* effectiveGrossIncome = grossPotentialIncome whatever vacancyPercent is.
C7_VacancyOrOccupancy ==
    IsRentalResult
    => IF proforma.scenario = "rental"
       THEN /\ Eq(proforma.grossPotentialIncome,
                  Mul(assumptions.monthlyRent, Whole(12)))
            /\ Eq(proforma.vacancyLoss,
                  Mul(proforma.grossPotentialIncome, assumptions.vacancyPercent))
            /\ Eq(proforma.effectiveGrossIncome,
                  Sub(proforma.grossPotentialIncome, proforma.vacancyLoss))
       ELSE /\ Eq(proforma.grossPotentialIncome,
                  Mul(Mul(assumptions.avgNightlyRate, Whole(365)),
                      assumptions.occupancyRate))
            /\ Eq(proforma.vacancyLoss, Zero)
            /\ Eq(proforma.effectiveGrossIncome, proforma.grossPotentialIncome)

\* C7 witness: an airbnb result with a positive vacancyPercent and income.
C7_Witness ==
    /\ IsRentalResult
    /\ proforma.scenario = "airbnb"
    /\ Gt(assumptions.vacancyPercent, Zero)
    /\ Gt(proforma.grossPotentialIncome, Zero)

\* the seven operating items of a rental / airbnb result
OperatingItems(pf) ==
    << pf.annualPropertyTax, pf.annualHomeInsurance, pf.annualHOA,
       pf.annualUtilities, pf.maintenance, pf.managementFee, pf.platformFee >>

\* the amounts behind the lines of the expense breakdown, before formatting
ExpenseBreakdownValues(pf) ==
    OperatingItems(pf) \o << pf.year1Interest, pf.year1Principal, pf.opportunityCost >>

C8_Totals ==
    /\ Eq(proforma.totalOpEx, SumSeq(OperatingItems(proforma)))
    /\ Eq(proforma.totalExpenses,
          Add(Add(proforma.totalOpEx, proforma.annualMortgagePayment),
              proforma.opportunityCost))

\* C8 (as claimed): totalOpEx is the sum of the seven operating items,
\* totalExpenses = totalOpEx + annualMortgagePayment + opportunityCost, and the
\* displayed lines of the expense breakdown sum exactly to the displayed
\* Total Expenses.
C8_Original ==
    IsRentalResult
    => /\ C8_Totals
       /\ SumSeq(ExpenseBreakdownLines(proforma, scenario))
            = ExpenseBreakdownTotal(proforma)

\* C8 (amended): the two totals are as claimed and the amounts behind the
\* lines of the expense breakdown sum exactly to totalExpenses; each amount is
\* displayed rounded to whole dollars, so the displayed lines sum to the
\* displayed Total Expenses up to rounding only (at most 5 dollars apart).
C8_ExpenseBreakdownSums ==
    IsRentalResult
    => /\ C8_Totals
       /\ Eq(SumSeq(ExpenseBreakdownValues(proforma)), proforma.totalExpenses)
       /\ Le(MathAbs(Sub(SumSeq(ExpenseBreakdownLines(proforma, scenario)),
                         ExpenseBreakdownTotal(proforma))), Whole(5))

\* C8 witness: an airbnb result with a platform fee whose displayed lines do
\* not add up to the displayed total.
C8_Witness ==
    /\ IsRentalResult
    /\ proforma.scenario = "airbnb"
    /\ Gt(proforma.platformFee, Zero)
    /\ SumSeq(ExpenseBreakdownLines(proforma, scenario))
         # ExpenseBreakdownTotal(proforma)

\* C9: in every owner proforma deductiblePropTax = min(price x
\* propertyTaxPercent, 10000), so it never exceeds 10000, and taxBenefit =
\* (deductiblePropTax + year1Interest) x (federalTaxRate + stateTaxRate).
C9_DeductiblePropTaxCap ==
    IsOwnerResult
    => LET tax == Mul(assumptions.purchasePrice, assumptions.propertyTaxPercent)
       IN  /\ Eq(proforma.deductiblePropTax,
                 IF Lt(tax, Whole(10000)) THEN tax ELSE Whole(10000))
           /\ Le(proforma.deductiblePropTax, Whole(10000))
           /\ Eq(proforma.taxBenefit,
                 Mul(Add(proforma.deductiblePropTax, proforma.year1Interest),
                     InCombinedRate))

\* C9 witness: an owner result whose property tax exceeds the cap.
C9_Witness ==
    /\ IsOwnerResult
    /\ Gt(proforma.annualPropertyTax, Whole(10000))
    /\ Eq(proforma.deductiblePropTax, Whole(10000))
    /\ Gt(proforma.year1Interest, Zero)

\* C10: in every owner proforma totalAnnualCost = annualMortgagePayment +
\* annualPropertyTax + annualHomeInsurance + annualHOA + annualUtilities,
\* totalExpenses = totalAnnualCost + opportunityCost, netAnnualCost =
\* totalAnnualCost - taxBenefit, netBenefit = equivalentRent x 12 -
\* netAnnualCost, and the monthly figures are the annual ones over 12.
C10_OwnerCosts ==
    IsOwnerResult
    => /\ Eq(proforma.totalAnnualCost,
             Add(Add(Add(Add(InAnnualPayment, proforma.annualPropertyTax),
                 proforma.annualHomeInsurance), proforma.annualHOA),
                 proforma.annualUtilities))
       /\ Eq(proforma.totalExpenses,
             Add(proforma.totalAnnualCost, proforma.opportunityCost))
       /\ Eq(proforma.netAnnualCost,
             Sub(proforma.totalAnnualCost, proforma.taxBenefit))
       /\ Eq(proforma.netBenefit,
             Sub(Mul(assumptions.equivalentRent, Whole(12)), proforma.netAnnualCost))
       /\ Eq(proforma.monthlyTotalCost, Div(proforma.totalAnnualCost, Whole(12)))
       /\ Eq(proforma.netMonthlyCost, Div(proforma.netAnnualCost, Whole(12)))

\* C10 witness: an owner result with a mortgage payment, a tax benefit and a
\* positive opportunity cost.
C10_Witness ==
    /\ IsOwnerResult
    /\ Gt(InAnnualPayment, Zero)
    /\ Gt(proforma.opportunityCost, Zero)
    /\ Gt(proforma.taxBenefit, Zero)

----------------------------------------------------------------------------
(* Finiteness of the result, checked under SpecProforma                    *)

\* the fraction-valued (percent and rate) fields of Assumptions and of
\* PersonalInfo
AssumptionFractions ==
    { "downPaymentPercent", "interestRate", "closingCostsPercent",
      "landValuePercent", "vacancyPercent", "occupancyRate", "airbnbFeePercent",
      "propertyTaxPercent", "homeInsurancePercent", "maintenancePercent",
      "mgmtFeePercent" }
PersonalFractions == { "federalTaxRate", "stateTaxRate", "opportunityCostRate" }

InUnit(x) == Le(Zero, x) /\ Le(x, One)

\* the numeric fields of a result
NumericFields(pf) == DOMAIN pf \ { "scenario" }
AllFinite(pf) == \A f \in NumericFields(pf) : IsFinite(pf[f])
NonFiniteFields(pf) == { f \in NumericFields(pf) : ~IsFinite(pf[f]) }

\* finite amounts and every fraction field in [0, 1]
WellFormedInputs ==
    /\ \A f \in DOMAIN assumptions : IsFinite(assumptions[f])
    /\ \A f \in AssumptionFractions : InUnit(assumptions[f])
    /\ \A f \in PersonalFractions : InUnit(personal[f])

PositivePriceRateTerm ==
    /\ Gt(assumptions.purchasePrice, Zero)
    /\ Gt(assumptions.interestRate, Zero)
    /\ Gt(assumptions.loanTerm, Zero)

\* C11 (as claimed): with purchasePrice > 0, interestRate > 0, loanTerm > 0,
\* finite amounts and all fraction fields in [0, 1], every field of the result
\* is finite in all three scenarios, also at downPaymentPercent = 0 and
\* closingCostsPercent = 0.
C11_FiniteForPositivePriceRateTerm ==
    (Returned /\ WellFormedInputs /\ PositivePriceRateTerm) => AllFinite(proforma)

\* C11, what the code does: with the same inputs only cashOnCashReturn can be
\* non-finite, and it is exactly when the cash needed (price x (down + closing))
\* is 0.
C11_OnlyCashOnCashAtZeroCash ==
    (Returned /\ WellFormedInputs /\ PositivePriceRateTerm)
    => NonFiniteFields(proforma) =
         IF IsRentalResult
            /\ Add(assumptions.downPaymentPercent, assumptions.closingCostsPercent) = Zero
         THEN { "cashOnCashReturn" } ELSE { }

\* C12 (as claimed): at purchasePrice = 0 the result of each of the three
\* scenarios has at least one NaN or Infinity field, and so has the result for
\* a non-positive interestRate or loanTerm.
C12_Original ==
    (Returned /\ WellFormedInputs
        /\ (Eq(assumptions.purchasePrice, Zero) \/ Le(assumptions.interestRate, Zero)
              \/ Le(assumptions.loanTerm, Zero)))
    => ~AllFinite(proforma)

\* C12 (amended): at purchasePrice = 0 the rental and the airbnb result have
\* a non-finite capRate and cashOnCashReturn and no other non-finite field,
\* and the owner result is finite in every field; a non-positive interestRate
\* or loanTerm gives a mortgage payment of 0, and the statement is then finite
\* whenever the price and the cash needed are positive.
C12_DegenerateInputs ==
    (Returned /\ WellFormedInputs)
    => /\ (Eq(assumptions.purchasePrice, Zero)
            => NonFiniteFields(proforma) =
                 IF IsRentalResult THEN { "capRate", "cashOnCashReturn" } ELSE { })
       /\ ((Le(assumptions.interestRate, Zero) \/ Le(assumptions.loanTerm, Zero))
            => /\ Eq(InAnnualPayment, Zero)
               /\ Eq(proforma.year1Principal, Neg(proforma.year1Interest))
               /\ ((Gt(assumptions.purchasePrice, Zero)
                      /\ Gt(totalCashNeeded(assumptions), Zero))
                    => AllFinite(proforma)))

\* C12 witness: a rental result at price 0 whose capRate is non-finite, with a
\* positive rate and term.
C12_Witness ==
    /\ IsRentalResult
    /\ Eq(assumptions.purchasePrice, Zero)
    /\ PositivePriceRateTerm!2
    /\ PositivePriceRateTerm!3
    /\ ~IsFinite(proforma.capRate)

\* C12, the other cases are reached as well: an owner result at price 0, and
\* a finite statement for a zero rate at a positive price.
C12_OwnerAtZeroPrice ==
    IsOwnerResult /\ Eq(assumptions.purchasePrice, Zero) /\ AllFinite(proforma)
C12_FiniteAtZeroRate ==
    /\ IsRentalResult
    /\ Eq(assumptions.interestRate, Zero)
    /\ Gt(assumptions.purchasePrice, Zero)
    /\ Gt(totalCashNeeded(assumptions), Zero)
    /\ AllFinite(proforma)

----------------------------------------------------------------------------
(* calculateProforma called repeatedly, checked under SpecPurity           *)

\* two purchases that differ in price only
PurityAssumptions ==
    { [defaultAssumptions EXCEPT !.purchasePrice = price,
                                 !.interestRate = Q(6, 100),
                                 !.loanTerm = Q(1, 12)] :
        price \in { Whole(275000), Whole(550000) } }

InitPurity ==
    /\ pc = "args"
    /\ assumptions \in PurityAssumptions
    /\ personal \in ProformaPersonal
    /\ scenario \in Scenarios
    /\ proforma = NoProforma
    /\ IdleMonthlyPI
    /\ calls = {}
    /\ clock = 2024
    /\ IdleGenerator
    /\ power = NoPower
    /\ IdleApp

\* the caller picks the arguments of its next call
NextArguments(a, p, s) ==
    /\ pc = "returned"
    /\ assumptions' = a
    /\ personal' = p
    /\ scenario' = s
    /\ pc' = "args"
    /\ UNCHANGED <<proforma, piVars, calls, clock, generatorVars, power, appVars>>

NextPurity ==
    \/ CallProforma
    \/ \E a \in PurityAssumptions, p \in ProformaPersonal, s \in Scenarios :
          NextArguments(a, p, s)

SpecPurity == InitPurity /\ [][NextPurity]_vars

\* the fields of the result types
BaseFields ==
    { "scenario", "totalCashNeeded", "annualPropertyTax", "annualHomeInsurance",
      "annualHOA", "annualUtilities", "opportunityCost", "year1Principal" }
RentalFields ==
    BaseFields \cup
    { "grossPotentialIncome", "vacancyLoss", "effectiveGrossIncome", "totalOpEx",
      "maintenance", "managementFee", "platformFee", "annualMortgagePayment",
      "totalExpenses", "cashFlowBeforeTax", "year1Interest", "annualDepreciation",
      "netTaxableIncome", "taxBenefit", "cashFlowAfterTax", "capRate",
      "cashOnCashReturn", "cashFlowPerMonth" }
OwnerFields ==
    BaseFields \cup
    { "grossAvoidedRent", "totalAnnualCost", "totalExpenses", "annualPITI",
      "year1Interest", "deductiblePropTax", "totalDeductions", "taxBenefit",
      "netAnnualCost", "netBenefit", "monthlyTotalCost", "netMonthlyCost" }

\* calls with equal arguments returned equal results, whatever was called
\* in between
EqualArgumentsEqualResults ==
    \A c1, c2 \in calls :
        (c1.assumptions = c2.assumptions /\ c1.personal = c2.personal
            /\ c1.scenario = c2.scenario)
        => c1.result = c2.result

\* the result carries the scenario passed in and the fields of its variant
TagAndVariant ==
    Returned
    => /\ proforma.scenario = scenario
       /\ DOMAIN proforma =
            IF scenario = "owner" THEN OwnerFields ELSE RentalFields
       /\ DOMAIN proforma # BaseFields

\* a call leaves its argument records as they were
ArgumentsUnchanged ==
    (pc = "args" /\ pc' = "returned")
    => (assumptions' = assumptions /\ personal' = personal /\ scenario' = scenario)

----------------------------------------------------------------------------
(* The thirty-year reference loan, checked under SpecReference             *)

\* calculateMonthlyPI for positive arguments, between bounds: pw holds a lower
\* and an upper bound of Math.pow(1 + monthlyRate, numberOfPayments)
monthlyPIBounds(principal, annualRate, pw) ==
    LET monthlyRate == Div(annualRate, Whole(12))
        numeratorLow == FixMulDown(FixDown(principal),
                                   FixMulDown(FixDown(monthlyRate), pw.lower))
        numeratorHigh == FixMulUp(FixDown(principal),
                                  FixMulUp(FixUp(monthlyRate), pw.upper))
        denominatorLow == [pw.lower EXCEPT ![2] = @ - 1]
        denominatorHigh == [pw.upper EXCEPT ![2] = @ - 1]
    IN  [ lower |-> FixToRational(FixDivDown(numeratorLow, denominatorHigh)),
          upper |-> FixToRational(FixAdd(FixDivDown(numeratorHigh, denominatorLow),
                                         <<0, 0, 1, 0, 0>>)) ]

\* the fields of the rental statement that calculateProforma derives from the
\* monthly payment pi (a pair of bounds), and those it derives without it
ReferenceProforma(a, p, s, pi) ==
    [ scenario |-> s,
      totalCashNeeded |-> totalCashNeeded(a),
      grossPotentialIncome |-> grossPotentialIncome(a, s),
      vacancyLoss |-> vacancyLoss(a, s),
      effectiveGrossIncome |-> effectiveGrossIncome(a, s),
      totalOpEx |-> totalOpEx(a, s),
      year1Interest |-> year1Interest(a),
      taxBenefit |-> rentalTaxBenefit(a, p, s),
      capRate |-> capRate(a, s),
      annualMortgagePayment |->
          [ lower |-> Mul(pi.lower, Whole(12)), upper |-> Mul(pi.upper, Whole(12)) ],
      cashFlowAfterTax |->
          [ lower |-> Add(Sub(netOperatingIncome(a, s), Mul(pi.upper, Whole(12))),
                          rentalTaxBenefit(a, p, s)),
            upper |-> Add(Sub(netOperatingIncome(a, s), Mul(pi.lower, Whole(12))),
                          rentalTaxBenefit(a, p, s)) ] ]

\* the default purchase at 6.5% over 30 years, the same over 15 years at 6%,
\* and two loans short and small enough for the payment to be computed
\* exactly as well
ReferenceAssumptions ==
    { [defaultAssumptions EXCEPT !.purchasePrice = loan[1],
                                 !.interestRate = loan[2],
                                 !.loanTerm = loan[3]] :
        loan \in { <<Whole(500000), Q(65, 1000), Whole(30)>>,
                   <<Whole(500000), Q(6, 100), Whole(15)>>,
                   <<Whole(50), Q(6, 100), Q(1, 12)>>,
                   <<Whole(50), Q(6, 100), Q(1, 4)>> } }

InitReference ==
    /\ pc = "pow"
    /\ assumptions \in ReferenceAssumptions
    /\ personal = defaultPersonal
    /\ scenario = "rental"
    /\ proforma = NoProforma
    /\ mpi = [ principal |-> loanAmount(assumptions),
               annualRate |-> assumptions.interestRate,
               loanTermYears |-> assumptions.loanTerm ]
    /\ payment = NaN
    /\ power = [exponent |-> 0, lower |-> FixOne, upper |-> FixOne]
    /\ calls = {}
    /\ clock = 2024
    /\ IdleGenerator
    /\ IdleApp

\* Math.pow(1 + monthlyRate, numberOfPayments), one factor at a time
PowStep ==
    /\ pc = "pow"
    /\ power.exponent < Mul(mpi.loanTermYears, Whole(12))[1]
    /\ LET base == Add(One, Div(mpi.annualRate, Whole(12)))
       IN  power' = [ exponent |-> power.exponent + 1,
                      lower |-> FixMulDown(power.lower, FixDown(base)),
                      upper |-> FixMulUp(power.upper, FixUp(base)) ]
    /\ UNCHANGED <<pc, piVars, engineVars, calls, clock, generatorVars, appVars>>

\* the payment and the statement, once the power is known
ReturnReference ==
    /\ pc = "pow"
    /\ power.exponent = Mul(mpi.loanTermYears, Whole(12))[1]
    /\ payment' = monthlyPIBounds(mpi.principal, mpi.annualRate, power)
    /\ proforma' = ReferenceProforma(assumptions, personal, scenario, payment')
    /\ pc' = "returned"
    /\ UNCHANGED <<mpi, assumptions, personal, scenario, calls, clock,
                   generatorVars, power, appVars>>

NextReference == PowStep \/ ReturnReference

SpecReference == InitReference /\ [][NextReference]_vars

\* x rounded to whole cents
ToCents(x) == Div(RoundHalfExpand(Mul(x, Whole(100))), Whole(100))

\* C14: price 500000, down 0.20, rate 0.065, term 30, rent 3000, vacancy 0.05,
\* propertyTax 0.012, insurance 0.004, HOA 50, utilities 200, maintenance 0.08,
\* management 0.10, land 0.20, tax rates 0.24 / 0.05, opportunity 0.07, rental:
\* loanAmount is 400000, the monthly payment is 2528.27 to the cent,
\* grossPotentialIncome 36000, vacancyLoss 1800, effectiveGrossIncome 34200,
\* capRate = (effectiveGrossIncome - totalOpEx) / price = 0.034088 and
\* cashOnCashReturn = cashFlowAfterTax / totalCashNeeded with cashFlowAfterTax =
\* that income - 12 payments + taxBenefit, which is between -0.05635 and
\* -0.05634 (stated on cashFlowAfterTax, multiplied out by totalCashNeeded).
C14_ReferenceCase ==
    (Returned /\ assumptions = defaultAssumptions /\ personal = defaultPersonal
        /\ scenario = "rental")
    => /\ loanAmount(assumptions) = Whole(400000)
       /\ mpi.principal = Whole(400000)
       /\ Le(payment.lower, payment.upper)
       /\ ToCents(payment.lower) = Q(252827, 100)
       /\ ToCents(payment.upper) = Q(252827, 100)
       /\ proforma.grossPotentialIncome = Whole(36000)
       /\ proforma.vacancyLoss = Whole(1800)
       /\ proforma.effectiveGrossIncome = Whole(34200)
       /\ proforma.capRate
            = Div(Sub(proforma.effectiveGrossIncome, proforma.totalOpEx),
                  assumptions.purchasePrice)
       /\ proforma.capRate = Q(34088, 1000000)
       /\ proforma.totalCashNeeded = Whole(115000)
       /\ Le(Mul(Q(-56350, 1000000), proforma.totalCashNeeded),
             proforma.cashFlowAfterTax.lower)
       /\ Le(proforma.cashFlowAfterTax.lower, proforma.cashFlowAfterTax.upper)
       /\ Le(proforma.cashFlowAfterTax.upper,
             Mul(Q(-56340, 1000000), proforma.totalCashNeeded))

\* C14 witness: the statement of the default purchase, after all 360 factors
\* of the power, with the payment strictly between 2528.27 and 2528.28.
C14_Witness ==
    /\ Returned
    /\ assumptions = defaultAssumptions
    /\ power.exponent = 360
    /\ Lt(Q(252827, 100), payment.lower)
    /\ Lt(payment.upper, Q(252828, 100))

\* for the two short loans the bounds and the payment computed exactly agree
\* to the cent
BoundsEncloseExactPayment ==
    (Returned /\ Lt(assumptions.loanTerm, One))
    => /\ Le(ToCents(payment.lower), ToCents(monthlyPI(assumptions)))
       /\ Le(ToCents(monthlyPI(assumptions)), ToCents(payment.upper))
       /\ Lt(Sub(payment.upper, payment.lower), Q(1, 1000))

----------------------------------------------------------------------------
(* seededRandom as a pure function, checked under SpecSeeded               *)

MaxSeedSteps == 40

\* the first seeds of the table: Math.sin is negative for about half of them
Seeds == { Whole(2091 + k) : k \in 0 .. MaxSeedSteps }

\* ranges the generator draws from, and two with a negative end
SeededRanges ==
    { <<Whole(80000), Whole(120000)>>, <<Zero, One>>, <<Q(625, 10000), Q(750, 10000)>>,
      <<Whole(-5), Whole(5)>>, <<Whole(-3), Q(-5, 2)>> }

InitSeeded ==
    /\ pc = "args"
    /\ seeded \in { [seed |-> sd, min |-> range[1], max |-> range[2]] :
                      sd \in Seeds, range \in SeededRanges }
    /\ drawn = NaN
    /\ property = NoProperty
    /\ simulated = NoAssumptions
    /\ calls = {}
    /\ clock = 2024
    /\ IdleMonthlyPI
    /\ IdleEngine
    /\ power = NoPower
    /\ IdleApp

\* a call of seededRandom, entered in the record of calls; it may be repeated
\* once with the same arguments
CallSeededRandom ==
    /\ pc \in {"args", "returned"}
    /\ drawn' = seededRandom(seeded.seed, seeded.min, seeded.max)
    /\ calls' = calls \cup { [seeded |-> seeded, nth |-> Cardinality(calls) + 1,
                              result |-> drawn'] }
    /\ pc' = IF pc = "args" THEN "returned" ELSE "repeated"
    /\ UNCHANGED <<seeded, property, simulated, clock, piVars, engineVars, power,
                   appVars>>

NextSeeded == CallSeededRandom

SpecSeeded == InitSeeded /\ [][NextSeeded]_vars

\* x = Math.sin(seed) * 10000 of the call
SeededX == Mul(MathSin(seeded.seed), Whole(10000))

\* C17: for every seed and every min < max, seededRandom(seed, min, max)
\* returns a value v with min <= v < max: the fractional part x - floor(x) of
\* x = sin(seed) * 10000 lies in [0, 1), also for a negative x, and v is min
\* plus that fraction of max - min; a repeated call with the same arguments
\* returns the same value.
C17_SeededRandomInRange ==
    (pc # "args")
    => /\ Le(seeded.min, drawn) /\ Lt(drawn, seeded.max)
       /\ Le(Zero, Sub(SeededX, MathFloor(SeededX)))
       /\ Lt(Sub(SeededX, MathFloor(SeededX)), One)
       /\ drawn = Add(seeded.min, Mul(Sub(SeededX, MathFloor(SeededX)),
                                      Sub(seeded.max, seeded.min)))
       /\ \A c1, c2 \in calls : c1.seeded = c2.seeded => c1.result = c2.result

\* C17 witness: a repeated call whose x is negative and not whole, drawn from
\* a range with a negative lower end.
C17_Witness ==
    /\ pc = "repeated"
    /\ Cardinality(calls) = 2
    /\ Lt(SeededX, Zero)
    /\ SeededX # MathFloor(SeededX)
    /\ Lt(seeded.min, Zero)
    /\ Lt(seeded.min, drawn)

----------------------------------------------------------------------------
(* simulatePropertyData called repeatedly, checked under SpecGenerator     *)

MaxYearVariation == 1
MaxClockYears == 1
MaxCalls == 2

\* "AB", "BA" and "AC" as character codes
Addresses == { <<65, 66>>, <<66, 65>>, <<65, 67>> }

\* a three-bed, two-bath house of 2010 at "AB"
BaseProperty == [address |-> <<65, 66>>, beds |-> Whole(3), baths |-> Whole(2),
                 year |-> Whole(2010)]

\* the house and those that differ from it in exactly one field
GeneratorProperties ==
    { [BaseProperty EXCEPT !.address = a] : a \in Addresses }
    \cup { [BaseProperty EXCEPT !.beds = Whole(4)],
            [BaseProperty EXCEPT !.baths = Q(5, 2)] }
    \cup { [BaseProperty EXCEPT !.year = Whole(2010 + 6 * k)] : k \in 0 .. MaxYearVariation }

InitGenerator ==
    /\ pc = "args"
    /\ property \in GeneratorProperties
    /\ simulated = NoAssumptions
    /\ calls = {}
    /\ clock = 2024
    /\ seeded = NoSeeded
    /\ drawn = NaN
    /\ IdleMonthlyPI
    /\ IdleEngine
    /\ power = NoPower
    /\ IdleApp

\* one call of simulatePropertyData, entered in the record of calls with the
\* calendar year it was made in
CallSimulate ==
    /\ pc = "args"
    /\ Cardinality(calls) < MaxCalls
    /\ simulated' = simulatePropertyData(property)
    /\ calls' = calls \cup { [property |-> property, clock |-> clock,
                              result |-> simulated'] }
    /\ pc' = "returned"
    /\ UNCHANGED <<property, clock, seeded, drawn, piVars, engineVars, power, appVars>>

\* the caller picks the property of its next call
NextProperty(prop) ==
    /\ pc = "returned"
    /\ property' = prop
    /\ pc' = "args"
    /\ UNCHANGED <<simulated, calls, clock, seeded, drawn, piVars, engineVars, power,
                   appVars>>

\* a new year begins
NewYear ==
    /\ clock < 2024 + MaxClockYears
    /\ clock' = clock + 1
    /\ UNCHANGED <<pc, property, simulated, calls, seeded, drawn, piVars, engineVars,
                   power, appVars>>

NextGenerator ==
    \/ CallSimulate
    \/ \E prop \in GeneratorProperties : NextProperty(prop)
    \/ NewYear

SpecGenerator == InitGenerator /\ [][NextGenerator]_vars

\* the fields in which two properties differ
DifferingFields(p1, p2) == { f \in DOMAIN p1 : p1[f] # p2[f] }

RECURSIVE SumOfCodes(_)
SumOfCodes(codes) == IF codes = << >> THEN 0 ELSE Head(codes) + SumOfCodes(Tail(codes))

\* C15 (as claimed): any two properties that differ in exactly one field
\* (address, beds, baths or year) yield assumptions that differ in at least one
\* field; in particular two addresses that are reorderings of each other do.
C15_Original ==
    \A c1, c2 \in calls :
        Cardinality(DifferingFields(c1.property, c2.property)) = 1
        => c1.result # c2.result

\* C15 (amended): the address enters only through the sum of its character
\* codes: two properties with equal beds, baths and year whose addresses have
\* the same sum (such as reorderings of each other) yield identical
\* assumptions; for the properties checked, a difference in exactly one of
\* beds, baths and year, or in an address of another sum, changes the result.
C15_SensitiveUpToCodeSum ==
    \A c1, c2 \in calls :
        LET differing == DifferingFields(c1.property, c2.property)
        IN  /\ (differing \subseteq {"address"}
                  /\ SumOfCodes(c1.property.address) = SumOfCodes(c2.property.address))
                => c1.result = c2.result
            /\ (Cardinality(differing) = 1
                  /\ SumOfCodes(c1.property.address) # SumOfCodes(c2.property.address))
                => c1.result # c2.result
            /\ (Cardinality(differing) = 1 /\ differing # {"address"})
                => c1.result # c2.result

\* C15 witness: "AB" and "BA" have both been simulated, with identical
\* results.
C15_Witness ==
    \E c1, c2 \in calls :
        /\ c1.property = BaseProperty
        /\ c2.property = [BaseProperty EXCEPT !.address = <<66, 65>>]
        /\ DifferingFields(c1.property, c2.property) = {"address"}
        /\ c1.result = c2.result

----------------------------------------------------------------------------
(* The analysis session: App, PropertyPage and the assumption editor,      *)
(* checked under SpecSession                                               *)
(*                                                                         *)
(* A string that holds a number is represented by that number, the empty   *)
(* string by the empty tuple; Number.prototype.toString followed by Number *)
(* or parseFloat gives the number back.  The memoised proforma is held as the *)
(* call it is the value of (scenario, field set of the variant and the two *)
(* records passed), since a thirty-year statement has no exact value in    *)
(* reach of the arithmetic above.                                          *)

MaxEdits == 1

NoPersonal == [personal |-> "none"]

\* the string ''
EmptyString == << >>

\* the hooks of PropertyPage while the page is not mounted
NoPage == [assumptions |-> NoAssumptions, personal |-> NoPersonal, scenario |-> "none",
           showAssumptions |-> FALSE]

\* the hooks of PropertyPage
PageState == [assumptions |-> assumptions, personal |-> personal, scenario |-> scenario,
              showAssumptions |-> showAssumptions]

\* the four useState hooks: the initial values are used when the page mounts
MountPropertyPage(page, initial) ==
    IF page = NoPage
    THEN [assumptions |-> initial, personal |-> defaultPersonal, scenario |-> "rental",
          showAssumptions |-> FALSE]
    ELSE page

\* a page that is hidden on Back and keeps its hooks
UnmountPropertyPage_keepsState(page) == page

\* App renders HomePage in place of PropertyPage: the page's hooks are dropped
UnmountPropertyPage(page) == NoPage

\* calculateProforma(a, p, s), held as the call it is the value of
Rendered(a, p, s) ==
    [scenario |-> s,
     variant |-> IF s = "rental" \/ s = "airbnb" THEN RentalFields
                 ELSE IF s = "owner" THEN OwnerFields ELSE BaseFields,
     assumptions |-> a, personal |-> p]

\* a memo that leaves the scenario out of its dependencies
useMemo_withoutScenario(memo, a, p, s) ==
    IF memo.scenario # "none" /\ memo.assumptions = a /\ memo.personal = p
    THEN memo
    ELSE Rendered(a, p, s)

\* useMemo(() => calculateProforma(assumptions, personal, scenario),
\*         [assumptions, personal, scenario])
useMemo(memo, a, p, s) ==
    IF memo.scenario # "none" /\ memo.assumptions = a /\ memo.personal = p /\ memo.scenario = s
    THEN memo
    ELSE Rendered(a, p, s)

parseFloat(text) == IF text = EmptyString THEN NaN ELSE text

Number(text) == IF text = EmptyString THEN Zero ELSE text

\* value || 0
OrZero(x) == IF IsNaN(x) \/ x = Zero THEN Zero ELSE x

\* the keys of Assumptions that contain 'Percent' or 'Rate'
PercentOrRateKeys == AssumptionFractions \cup { "avgNightlyRate" }

\* the keys of Assumptions that have a plain number input
AmountKeys == { "purchasePrice", "loanTerm", "monthlyRent", "avgNightlyRate",
                "equivalentRent", "monthlyHOA", "utilitiesMonthly" }

\* min and max of each slider, in percent
SliderRange ==
    [ federalTaxRate |-> <<0, 50>>, stateTaxRate |-> <<0, 15>>,
      opportunityCostRate |-> <<0, 15>>, downPaymentPercent |-> <<0, 100>>,
      interestRate |-> <<1, 15>>, closingCostsPercent |-> <<0, 10>>,
      occupancyRate |-> <<0, 100>>, propertyTaxPercent |-> <<0, 5>>,
      homeInsurancePercent |-> <<0, 2>>, maintenancePercent |-> <<0, 20>>,
      vacancyPercent |-> <<0, 20>>, mgmtFeePercent |-> <<0, 20>>,
      airbnbFeePercent |-> <<0, 20>>, landValuePercent |-> <<0, 50>> ]

\* the two ends of a slider
SliderPositions(key) == { Whole(SliderRange[key][1]), Whole(SliderRange[key][2]) }

\* what is typed into a number box: nothing, 150, -5 or 6.5
TypedTexts == { EmptyString, Whole(150), Whole(-5), Q(13, 2) }

\* SliderInput, the range input of a percent slider: the string handed to onChange
rangeChange(position) == Div(parseFloat(position), Whole(100))

\* SliderInput, the number box of a percent slider: the string handed to onChange
handleTextChange(text) == Div(OrZero(parseFloat(text)), Whole(100))

handleAssumptionChange(prev, key, value) ==
    LET processedValue ==
            IF key \in PercentOrRateKeys
            THEN (IF value = EmptyString THEN Zero ELSE Div(parseFloat(value), Whole(100)))
            ELSE Number(value)
    IN  [prev EXCEPT ![key] = processedValue]

\* a handler that builds the new record on the defaults, not on the previous one
handleSliderChange_onDefaults(prev, key, value) == [defaultAssumptions EXCEPT ![key] = value]

handleSliderChange(prev, key, value) == [prev EXCEPT ![key] = value]

handlePersonalChange(prev, key, value) ==
    LET processedValue ==
            IF value = EmptyString THEN Zero ELSE Div(parseFloat(value), Whole(100))
    IN  [prev EXCEPT ![key] = processedValue]

\* the values of variables the session does not use
outsideSession == <<piVars, clock, seeded, drawn, power>>

InitSession ==
    /\ pc = "home"
    /\ property = NoProperty
    /\ initialAssumptions = defaultAssumptions
    /\ isDarkMode = FALSE
    /\ assumptions = NoPage.assumptions
    /\ personal = NoPage.personal
    /\ scenario = NoPage.scenario
    /\ showAssumptions = NoPage.showAssumptions
    /\ proforma = NoProforma
    /\ simulated = NoAssumptions
    /\ calls = {}
    /\ edits = 0
    /\ clock = 2024
    /\ seeded = NoSeeded
    /\ drawn = NaN
    /\ IdleMonthlyPI
    /\ power = NoPower

\* the hooks of PropertyPage after an event, and the proforma of the render
\* that follows it
SetPage(page) ==
    /\ assumptions' = page.assumptions
    /\ personal' = page.personal
    /\ scenario' = page.scenario
    /\ showAssumptions' = page.showAssumptions
    /\ proforma' = IF property' = NoProperty THEN NoProforma
                   ELSE useMemo(proforma, page.assumptions, page.personal, page.scenario)

\* the properties submitted from HomePage
SubmittedProperties == { BaseProperty, [BaseProperty EXCEPT !.beds = Whole(4)] }

\* App.handleAnalyze, and the first render of PropertyPage
HandleAnalyze(propertyData) ==
    /\ property = NoProperty
    /\ simulated' = simulatePropertyData(propertyData)
    /\ calls' = calls \cup { [property |-> propertyData, result |-> simulated'] }
    /\ initialAssumptions' = simulated'
    /\ property' = propertyData
    /\ SetPage(MountPropertyPage(PageState, initialAssumptions'))
    /\ pc' = "analyzed"
    /\ UNCHANGED <<isDarkMode, edits, outsideSession>>

\* onBack: setProperty(null)
OnBack ==
    /\ property # NoProperty
    /\ property' = NoProperty
    /\ SetPage(UnmountPropertyPage(PageState))
    /\ pc' = "home"
    /\ UNCHANGED <<initialAssumptions, isDarkMode, simulated, calls, edits, outsideSession>>

ToggleDarkMode ==
    /\ isDarkMode' = ~isDarkMode
    /\ UNCHANGED <<pc, property, engineVars, initialAssumptions, showAssumptions,
                   simulated, calls, edits, outsideSession>>

\* an event of the mounted page that leaves App's state alone
PageEvent(page) ==
    /\ property # NoProperty
    /\ UNCHANGED <<property, initialAssumptions, isDarkMode, simulated, calls,
                   outsideSession>>
    /\ SetPage(page)
    /\ pc' = "page"

\* the Tweak Assumptions button
OpenAssumptions ==
    /\ ~showAssumptions
    /\ PageEvent([PageState EXCEPT !.showAssumptions = TRUE])
    /\ UNCHANGED edits

\* AssumptionModal.onClose
CloseAssumptions ==
    /\ showAssumptions
    /\ PageEvent([PageState EXCEPT !.showAssumptions = FALSE])
    /\ UNCHANGED edits

\* a tab of ProformaTabs
SetScenario(tab) ==
    /\ tab # scenario
    /\ PageEvent([PageState EXCEPT !.scenario = tab])
    /\ UNCHANGED edits

\* a change made in the editor, which the modal shows
EditorEvent(page) ==
    /\ showAssumptions
    /\ edits < MaxEdits
    /\ edits' = edits + 1
    /\ PageEvent(page)

\* the range input of one of the eleven assumption sliders is moved
SlideAssumption(key, position) ==
    EditorEvent([PageState EXCEPT
        !.assumptions = handleSliderChange(assumptions, key, Number(rangeChange(position)))])

\* a number is typed into the box of an assumption slider
TypeAssumptionPercent(key, text) ==
    EditorEvent([PageState EXCEPT
        !.assumptions = handleSliderChange(assumptions, key, Number(handleTextChange(text)))])

\* the range input of one of the three personal sliders is moved
SlidePersonal(key, position) ==
    EditorEvent([PageState EXCEPT
        !.personal = handlePersonalChange(personal, key, rangeChange(position))])

\* a number is typed into the box of a personal slider
TypePersonalPercent(key, text) ==
    EditorEvent([PageState EXCEPT
        !.personal = handlePersonalChange(personal, key, handleTextChange(text))])

\* a number is typed into one of the seven plain number inputs
TypeAmount(key, text) ==
    EditorEvent([PageState EXCEPT
        !.assumptions = handleAssumptionChange(assumptions, key, text)])

NextSession ==
    \/ \E propertyData \in SubmittedProperties : HandleAnalyze(propertyData)
    \/ OnBack
    \/ ToggleDarkMode
    \/ OpenAssumptions
    \/ CloseAssumptions
    \/ \E tab \in Scenarios : SetScenario(tab)
    \/ \E key \in AssumptionFractions :
          \E position \in SliderPositions(key) : SlideAssumption(key, position)
    \/ \E key \in AssumptionFractions, text \in TypedTexts :
          TypeAssumptionPercent(key, text)
    \/ \E key \in PersonalFractions :
          \E position \in SliderPositions(key) : SlidePersonal(key, position)
    \/ \E key \in PersonalFractions, text \in TypedTexts : TypePersonalPercent(key, text)
    \/ \E key \in AmountKeys, text \in TypedTexts : TypeAmount(key, text)

SpecSession == InitSession /\ [][NextSession]_vars

\* C18 (as claimed): in every state of an analysis session, whatever was
\* changed through the sliders or their number boxes, every rate and percent
\* field of the assumptions and of the personal profile is a fraction in
\* [0, 1].
C18_FractionsInUnit ==
    property # NoProperty
    => /\ \A f \in AssumptionFractions : InUnit(assumptions[f])
       /\ \A f \in PersonalFractions : InUnit(personal[f])

\* C19: in every state of the analysis page, after any interleaving of
\* assumption edits, personal edits and tab switches, the proforma handed to
\* the display is calculateProforma of the current assumptions, personal
\* profile and scenario; its variant (rental fields for rental and airbnb,
\* owner fields for owner) is that of the scenario the display branches on.
C19_ProformaIsCurrent ==
    property # NoProperty
    => /\ proforma = Rendered(assumptions, personal, scenario)
       /\ proforma.scenario = scenario
       /\ proforma.assumptions = assumptions
       /\ proforma.personal = personal
       /\ scenario \in {"rental", "airbnb"} => proforma.variant = RentalFields
       /\ scenario = "owner" => proforma.variant = OwnerFields

\* C19 witness: an assumption was edited and the owner tab chosen; the
\* display holds the owner statement of the edited assumptions.
C19_Witness ==
    /\ property # NoProperty
    /\ edits > 0
    /\ assumptions # initialAssumptions
    /\ scenario = "owner"
    /\ ~showAssumptions
    /\ proforma.variant = OwnerFields
    /\ proforma.assumptions = assumptions

\* C20: each Analyze submission calls simulatePropertyData once, and the
\* analysis page then starts with that simulated record as its assumptions,
\* the default personal profile, the rental scenario and the modal closed;
\* nothing of an earlier session is carried over.
C20_SessionScoped ==
    pc = "analyzed"
    => /\ property # NoProperty
       /\ [property |-> property, result |-> simulated] \in calls
       /\ simulated = simulatePropertyData(property)
       /\ initialAssumptions = simulated
       /\ assumptions = simulated
       /\ personal = defaultPersonal
       /\ scenario = "rental"
       /\ ~showAssumptions

\* C20 witness: a property has been analysed after a session in which the
\* editor was used, and the page has just started.
C20_Witness ==
    /\ pc = "analyzed"
    /\ edits > 0
    /\ property \in SubmittedProperties
    /\ assumptions = simulatePropertyData(property)

----------------------------------------------------------------------------
(* simulatePropertyData over the properties HomePage can submit, checked   *)
(* under SpecSimulate                                                      *)

MaxBeds == 5
MaxBathHalves == 6

\* years built that fall into every age bracket of the price and of the HOA
YearsBuilt == { 1800, 1950, 1980, 2000, 2012, 2016, 2022 }

\* the seeds for which every draw of a call, at offsets 1 .. 90, is tabulated
SeedInTable(prop) ==
    /\ Le(Whole(2090), generateSeed(prop))
    /\ Le(generateSeed(prop), Whole(2710))

\* "A" and "AB" with 0, 1, ... beds, 0, 1/2, 1, ... baths and the years above
SimulatedProperties ==
    { prop \in { [address |-> address, beds |-> Whole(beds), baths |-> Q(halves, 2),
                  year |-> Whole(year)] :
                    address \in { <<65>>, <<65, 66>> }, beds \in 0 .. MaxBeds,
                    halves \in 0 .. MaxBathHalves, year \in YearsBuilt } :
        SeedInTable(prop) }

InitSimulate ==
    /\ pc = "args"
    /\ property \in SimulatedProperties
    /\ simulated = NoAssumptions
    /\ calls = {}
    /\ clock = 2024
    /\ seeded = NoSeeded
    /\ drawn = NaN
    /\ IdleMonthlyPI
    /\ IdleEngine
    /\ power = NoPower
    /\ IdleApp

NextSimulate == CallSimulate

SpecSimulate == InitSimulate /\ [][NextSimulate]_vars

\* x is a whole multiple of unit
IsMultipleOf(x, unit) == IsFinite(x) /\ Div(x, unit)[2] = 1

C23_UtilitiesWithin100And350 ==
    pc = "returned"
    => /\ Le(Whole(100), simulated.utilitiesMonthly)
       /\ Le(simulated.utilitiesMonthly, Whole(350))

\* what holds instead: the utilities lie between 100 + 25 beds + 15 baths and
\* 150 + 40 beds + 25 baths, rounded to 10, and stay within 350 for houses of
\* at most three beds and two baths
C23_UtilitiesBySize ==
    pc = "returned"
    => /\ Le(Sub(Add(Add(Whole(100), Mul(Whole(25), property.beds)),
                     Mul(Whole(15), property.baths)), Whole(5)),
             simulated.utilitiesMonthly)
       /\ Le(simulated.utilitiesMonthly,
             Add(Add(Add(Whole(150), Mul(Whole(40), property.beds)),
                     Mul(Whole(25), property.baths)), Whole(5)))
       /\ (Le(property.beds, Whole(3)) /\ Le(property.baths, Whole(2)))
          => Le(simulated.utilitiesMonthly, Whole(350))

\* C29: simulatePropertyData yields a purchasePrice of 0 exactly when beds = 0
\* and baths = 0; for every other property of whole beds >= 0 and baths >= 0
\* in half steps the price is a positive multiple of 5,000.
C29_PriceZeroOnlyWithoutRooms ==
    pc = "returned"
    => /\ (simulated.purchasePrice = Zero)
            <=> (property.beds = Zero /\ property.baths = Zero)
       /\ (property.beds # Zero \/ property.baths # Zero)
            => /\ Lt(Zero, simulated.purchasePrice)
               /\ IsMultipleOf(simulated.purchasePrice, Whole(5000))

\* C29 witness: a property without rooms was simulated and its price is 0.
C29_Witness ==
    /\ pc = "returned"
    /\ property.beds = Zero
    /\ property.baths = Zero
    /\ simulated.purchasePrice = Zero

\* a property with half a bath and no bedroom has a positive price
C29_HalfBathOnly ==
    /\ pc = "returned"
    /\ property.beds = Zero
    /\ property.baths = Q(1, 2)
    /\ Lt(Zero, simulated.purchasePrice)

\* the table below with the equivalent rent drawn at the offset of the rent ratio
SeedOffset_equivalentRentAt10 ==
    [ basePricePerBed |-> 1, basePricePerBath |-> 2, ageFactorNew |-> 3,
      ageFactorModern |-> 4, ageFactorEstablished |-> 5, ageFactorOlder |-> 6,
      ageFactorHistoric |-> 7, marketMultiplier |-> 8, rentRatioBase |-> 10,
      sizeAdjustmentLarge |-> 11, sizeAdjustmentSmall |-> 12, airbnbMultiplier |-> 20,
      bedroomBonus |-> 21, occupancyRate |-> 25, propertyTaxPercent |-> 30,
      baseRate |-> 35, priceAdjustmentHigh |-> 36, priceAdjustmentLow |-> 37,
      hasHOA |-> 40, monthlyHOA |-> 41, baseUtilities |-> 45, bedroomCost |-> 46,
      bathroomCost |-> 47, interestRate |-> 50, downPayment |-> 55,
      equivalentRent |-> 10, closingCostsPercent |-> 65, landValuePercent |-> 70,
      vacancyPercent |-> 75, maintenancePercent |-> 80, mgmtFeePercent |-> 85,
      airbnbFeePercent |-> 90 ]

\* the offset added to the seed at every seededRandom call of the generator,
\* by the constant the drawn value is assigned to
SeedOffset ==
    [ basePricePerBed |-> 1, basePricePerBath |-> 2, ageFactorNew |-> 3,
      ageFactorModern |-> 4, ageFactorEstablished |-> 5, ageFactorOlder |-> 6,
      ageFactorHistoric |-> 7, marketMultiplier |-> 8, rentRatioBase |-> 10,
      sizeAdjustmentLarge |-> 11, sizeAdjustmentSmall |-> 12, airbnbMultiplier |-> 20,
      bedroomBonus |-> 21, occupancyRate |-> 25, propertyTaxPercent |-> 30,
      baseRate |-> 35, priceAdjustmentHigh |-> 36, priceAdjustmentLow |-> 37,
      hasHOA |-> 40, monthlyHOA |-> 41, baseUtilities |-> 45, bedroomCost |-> 46,
      bathroomCost |-> 47, interestRate |-> 50, downPayment |-> 55,
      equivalentRent |-> 60, closingCostsPercent |-> 65, landValuePercent |-> 70,
      vacancyPercent |-> 75, maintenancePercent |-> 80, mgmtFeePercent |-> 85,
      airbnbFeePercent |-> 90 ]

\* the draws one call of simulatePropertyData makes, following its branches
DrawsOfCall(prop) ==
    LET seed == generateSeed(prop)
        age == propertyAge(prop)
        purchasePrice == calculateRealisticPrice(prop, seed)
    IN  { "basePricePerBed", "basePricePerBath", "marketMultiplier", "rentRatioBase",
          "airbnbMultiplier", "occupancyRate", "propertyTaxPercent", "baseRate",
          "hasHOA", "baseUtilities", "bedroomCost", "bathroomCost", "interestRate",
          "downPayment", "equivalentRent", "closingCostsPercent", "landValuePercent",
          "vacancyPercent", "maintenancePercent", "mgmtFeePercent", "airbnbFeePercent" }
        \cup { IF Lt(age, Whole(5)) THEN "ageFactorNew"
               ELSE IF Lt(age, Whole(15)) THEN "ageFactorModern"
               ELSE IF Lt(age, Whole(30)) THEN "ageFactorEstablished"
               ELSE IF Lt(age, Whole(50)) THEN "ageFactorOlder"
               ELSE "ageFactorHistoric" }
        \cup (IF Le(Whole(4), prop.beds) THEN { "sizeAdjustmentLarge" }
              ELSE IF Le(prop.beds, Whole(2)) THEN { "sizeAdjustmentSmall" } ELSE {})
        \cup (IF Le(Whole(3), prop.beds) THEN { "bedroomBonus" } ELSE {})
        \cup (IF Gt(purchasePrice, Whole(600000)) THEN { "priceAdjustmentHigh" }
              ELSE IF Lt(purchasePrice, Whole(250000)) THEN { "priceAdjustmentLow" }
              ELSE {})
        \cup (IF Gt(seededRandom(Offset(seed, SeedOffset.hasHOA), Zero, One), Q(4, 10))
              THEN { "monthlyHOA" } ELSE {})

\* the value drawn for a constant in the call for prop
DrawFor(prop, name, min, max) ==
    seededRandom(Offset(generateSeed(prop), SeedOffset[name]), min, max)

\* C22: within one simulatePropertyData call no two seeded draws use the same
\* seed offset: the offsets of the draws are pairwise distinct, those of the
\* draws a call makes and those of all draws of the source alike, and so are
\* the seeds the draws of a call are made with.
C22_DistinctSeedOffsets ==
    pc = "returned"
    => /\ \A d1, d2 \in DOMAIN SeedOffset :
             d1 # d2 => SeedOffset[d1] # SeedOffset[d2]
       /\ \A d1, d2 \in DrawsOfCall(property) :
             d1 # d2 => Offset(generateSeed(property), SeedOffset[d1])
                          # Offset(generateSeed(property), SeedOffset[d2])
       /\ simulated.occupancyRate = DrawFor(property, "occupancyRate", Q(55, 100), Q(75, 100))
       /\ simulated.propertyTaxPercent
            = DrawFor(property, "propertyTaxPercent", Q(8, 1000), Q(15, 1000))
       /\ simulated.closingCostsPercent
            = DrawFor(property, "closingCostsPercent", Q(25, 1000), Q(40, 1000))
       /\ simulated.landValuePercent
            = DrawFor(property, "landValuePercent", Q(20, 100), Q(35, 100))
       /\ simulated.vacancyPercent = DrawFor(property, "vacancyPercent", Q(4, 100), Q(8, 100))
       /\ simulated.maintenancePercent
            = DrawFor(property, "maintenancePercent", Q(6, 100), Q(12, 100))
       /\ simulated.mgmtFeePercent = DrawFor(property, "mgmtFeePercent", Q(8, 100), Q(12, 100))
       /\ simulated.airbnbFeePercent
            = DrawFor(property, "airbnbFeePercent", Q(3, 100), Q(5, 100))

\* C22 witness: a call that takes the branches with a draw of their own: a
\* house of four beds or more, priced above 600,000, with an HOA.
C22_Witness ==
    /\ pc = "returned"
    /\ { "sizeAdjustmentLarge", "bedroomBonus", "priceAdjustmentHigh", "monthlyHOA" }
         \subseteq DrawsOfCall(property)
    /\ Cardinality(DrawsOfCall(property)) = 26

----------------------------------------------------------------------------
(* The editor's inputs one by one, checked under SpecSession               *)

\* SliderInput: what a percent control shows for the stored value
numberValue(value) == Mul(value, Whole(100))

\* C24 (as claimed): for every percent field shown through a SliderInput,
\* the three personal rates and the assumption percents alike, moving the
\* slider to p or typing the number p stores p/100, and the control, which
\* shows stored x 100, shows p again.
C24_PercentRoundTrip ==
    [][ /\ \A key \in AssumptionFractions : \A position \in SliderPositions(key) :
              SlideAssumption(key, position)
              => /\ assumptions'[key] = Div(position, Whole(100))
                 /\ numberValue(assumptions'[key]) = position
        /\ \A key \in AssumptionFractions : \A text \in TypedTexts \ { EmptyString } :
              TypeAssumptionPercent(key, text)
              => /\ assumptions'[key] = Div(text, Whole(100))
                 /\ numberValue(assumptions'[key]) = text
        /\ \A key \in PersonalFractions : \A position \in SliderPositions(key) :
              SlidePersonal(key, position)
              => /\ personal'[key] = Div(position, Whole(100))
                 /\ numberValue(personal'[key]) = position
        /\ \A key \in PersonalFractions : \A text \in TypedTexts \ { EmptyString } :
              TypePersonalPercent(key, text)
              => /\ personal'[key] = Div(text, Whole(100))
                 /\ numberValue(personal'[key]) = text
      ]_vars

\* what holds instead: an assumption percent makes the round trip, a personal
\* rate is stored as p/10000
C24_PersonalDividedTwice ==
    [][ /\ \A key \in AssumptionFractions : \A position \in SliderPositions(key) :
              SlideAssumption(key, position)
              => numberValue(assumptions'[key]) = position
        /\ \A key \in AssumptionFractions : \A text \in TypedTexts \ { EmptyString } :
              TypeAssumptionPercent(key, text)
              => numberValue(assumptions'[key]) = text
        /\ \A key \in PersonalFractions : \A position \in SliderPositions(key) :
              SlidePersonal(key, position)
              => personal'[key] = Div(position, Whole(10000))
        /\ \A key \in PersonalFractions : \A text \in TypedTexts \ { EmptyString } :
              TypePersonalPercent(key, text)
              => personal'[key] = Div(text, Whole(10000))
      ]_vars

\* C25 (as claimed): for every field edited through a plain number input,
\* entering the number v stores exactly v, and an empty entry stores 0; no
\* such field is divided by 100.
C25_AmountStoredVerbatim ==
    [][ \A key \in AmountKeys : \A text \in TypedTexts :
            TypeAmount(key, text) => assumptions'[key] = Number(text) ]_vars

\* what holds instead: every amount but the nightly rate is stored as entered,
\* and the nightly rate is stored as a hundredth of what was entered
C25_NightlyRateDivided ==
    [][ \A key \in AmountKeys : \A text \in TypedTexts :
            TypeAmount(key, text)
            => assumptions'[key] = IF key = "avgNightlyRate"
                                   THEN Div(Number(text), Whole(100))
                                   ELSE Number(text) ]_vars

\* the fields in which two records differ
ChangedFields(before, after) == { f \in DOMAIN before : before[f] # after[f] }

\* C27: every event of the page changes only what it is about.  An edit of
\* an assumption changes one assumption field and leaves the personal
\* profile, the scenario and the property alone; an edit of a personal rate
\* changes one rate and leaves the assumptions alone; a tab switch, opening
\* or closing the modal and the dark-mode toggle leave assumptions and
\* personal profile alone, so closing the modal never reverts an edit.
C27_EditsChangeOneKey ==
    [][ /\ (property # NoProperty /\ property' # NoProperty)
           => /\ property' = property
              /\ DOMAIN assumptions' = DOMAIN assumptions
              /\ DOMAIN personal' = DOMAIN personal
              /\ assumptions' # assumptions
                 => /\ Cardinality(ChangedFields(assumptions, assumptions')) = 1
                    /\ personal' = personal
                    /\ scenario' = scenario
              /\ personal' # personal
                 => /\ Cardinality(ChangedFields(personal, personal')) = 1
                    /\ assumptions' = assumptions
                    /\ scenario' = scenario
              /\ (scenario' # scenario \/ showAssumptions' # showAssumptions)
                 => /\ assumptions' = assumptions
                    /\ personal' = personal
        /\ isDarkMode' # isDarkMode
           => /\ assumptions' = assumptions
              /\ personal' = personal
              /\ scenario' = scenario
              /\ property' = property
              /\ showAssumptions' = showAssumptions
      ]_vars

\* C27 witness: one field was edited, the modal closed, the tab switched and
\* dark mode turned on; the edit is still there and nothing else has changed.
C27_Witness ==
    /\ property # NoProperty
    /\ edits = 1
    /\ ~showAssumptions
    /\ isDarkMode
    /\ scenario = "airbnb"
    /\ personal = defaultPersonal
    /\ Cardinality(ChangedFields(initialAssumptions, assumptions)) = 1

----------------------------------------------------------------------------
(* The three scenarios side by side, checked under SpecPurity              *)

\* the fields every result carries, the scenario tag apart
SharedFields == (BaseFields \ { "scenario" }) \cup { "year1Interest" }

\* C26: for the same assumptions and personal profile the shared base fields
\* and year1Interest have identical values in the rental, airbnb and owner
\* results, and they are: totalCashNeeded = price x downPaymentPercent +
\* price x closingCostsPercent, annualHOA = 12 x monthlyHOA, annualUtilities
\* = 12 x utilitiesMonthly, opportunityCost = totalCashNeeded x
\* opportunityCostRate, year1Principal = 12 x monthlyPI - year1Interest.
C26_SharedBaseAcrossScenarios ==
    \A c1, c2 \in calls :
        (c1.assumptions = c2.assumptions /\ c1.personal = c2.personal)
        => /\ \A f \in SharedFields : c1.result[f] = c2.result[f]
           /\ SharedFields \subseteq DOMAIN c1.result
           /\ c1.result.totalCashNeeded
                = Add(Mul(c1.assumptions.purchasePrice, c1.assumptions.downPaymentPercent),
                      Mul(c1.assumptions.purchasePrice, c1.assumptions.closingCostsPercent))
           /\ c1.result.annualPropertyTax
                = Mul(c1.assumptions.purchasePrice, c1.assumptions.propertyTaxPercent)
           /\ c1.result.annualHomeInsurance
                = Mul(c1.assumptions.purchasePrice, c1.assumptions.homeInsurancePercent)
           /\ c1.result.annualHOA = Mul(Whole(12), c1.assumptions.monthlyHOA)
           /\ c1.result.annualUtilities = Mul(Whole(12), c1.assumptions.utilitiesMonthly)
           /\ c1.result.opportunityCost
                = Mul(c1.result.totalCashNeeded, c1.personal.opportunityCostRate)
           /\ c1.result.year1Principal
                = Sub(Mul(Whole(12), monthlyPI(c1.assumptions)), c1.result.year1Interest)

\* C26 witness: the same purchase has been computed in all three scenarios.
C26_Witness ==
    \E c1, c2, c3 \in calls :
        /\ c1.scenario = "rental" /\ c2.scenario = "airbnb" /\ c3.scenario = "owner"
        /\ c1.assumptions = c2.assumptions /\ c2.assumptions = c3.assumptions
        /\ c1.personal = c2.personal /\ c2.personal = c3.personal
        /\ Lt(Zero, c3.result.year1Principal)
        /\ c1.result.totalCashNeeded = c3.result.totalCashNeeded

----------------------------------------------------------------------------
(* calculateProforma called again with one assumption changed, checked     *)
(* under SpecVariants                                                      *)

\* the purchase the calls start from: the defaults, paid back in one month
VariantBase ==
    [defaultAssumptions EXCEPT !.interestRate = Q(6, 100), !.loanTerm = Q(1, 12)]

\* the values each assumption takes besides the one it starts with
VariantValues ==
    [ downPaymentPercent |-> { Q(20, 100), One, Q(150, 100) },
      interestRate       |-> { Q(6, 100), Zero, Q(-5, 100) },
      landValuePercent   |-> { Q(20, 100), Q(30, 100) },
      monthlyRent        |-> { Whole(3000), Whole(3500) },
      vacancyPercent     |-> { Q(5, 100), Q(10, 100) },
      avgNightlyRate     |-> { Whole(250), Whole(300) },
      occupancyRate      |-> { Q(65, 100), Q(50, 100) },
      airbnbFeePercent   |-> { Q(3, 100), Q(15, 100) },
      equivalentRent     |-> { Whole(3200), Whole(2500) },
      maintenancePercent |-> { Q(8, 100), Q(5, 100) },
      mgmtFeePercent     |-> { Q(10, 100), Q(20, 100) } ]

VariantKeys == DOMAIN VariantValues

\* at most this many assumptions are away from their starting value at a time
MaxChanged == 2

Changed(a) == { k \in VariantKeys : a[k] # VariantBase[k] }

InitVariants ==
    /\ pc = "args"
    /\ assumptions = VariantBase
    /\ personal \in ProformaPersonal
    /\ scenario \in Scenarios
    /\ proforma = NoProforma
    /\ IdleMonthlyPI
    /\ calls = {}
    /\ clock = 2024
    /\ IdleGenerator
    /\ power = NoPower
    /\ IdleApp

\* the caller changes one assumption and calls calculateProforma again
CallWithChanged(key, value) ==
    /\ pc = "returned"
    /\ value # assumptions[key]
    /\ Cardinality(Changed([assumptions EXCEPT ![key] = value])) <= MaxChanged
    /\ assumptions' = [assumptions EXCEPT ![key] = value]
    /\ proforma' = calculateProforma(assumptions', personal, scenario)
    /\ UNCHANGED <<pc, personal, scenario, calls, piVars, clock, generatorVars,
                   power, appVars>>

NextVariants ==
    \/ CallProforma
    \/ \E key \in VariantKeys : \E value \in VariantValues[key] :
          CallWithChanged(key, value)

SpecVariants == InitVariants /\ [][NextVariants]_vars

\* the assumptions the claim names as without effect on each scenario
Irrelevant ==
    [ rental |-> { "avgNightlyRate", "occupancyRate", "airbnbFeePercent",
                   "equivalentRent" },
      airbnb |-> { "monthlyRent", "vacancyPercent", "equivalentRent" },
      owner  |-> { "monthlyRent", "avgNightlyRate", "occupancyRate",
                   "vacancyPercent", "maintenancePercent", "mgmtFeePercent",
                   "airbnbFeePercent", "landValuePercent" } ]

\* the assumptions a with the fields named in keys put back to the base's
WithBaseValues(a, keys) ==
    [ k \in DOMAIN a |-> IF k \in keys THEN VariantBase[k] ELSE a[k] ]

\* C28: the rental result does not depend on avgNightlyRate, occupancyRate,
\* airbnbFeePercent or equivalentRent; the airbnb result does not depend on
\* monthlyRent, vacancyPercent or equivalentRent; the owner result does not
\* depend on monthlyRent, avgNightlyRate, occupancyRate, vacancyPercent,
\* maintenancePercent, mgmtFeePercent, airbnbFeePercent or landValuePercent:
\* whatever these fields hold, the result is the one computed with their
\* starting values.
C28_IrrelevantFieldsIgnored ==
    pc = "returned"
    => proforma = calculateProforma(WithBaseValues(assumptions, Irrelevant[scenario]),
                                    personal, scenario)

\* C28 witness: an owner result computed after the rent and the land value,
\* both without effect on it, have been changed.
C28_Witness ==
    /\ pc = "returned"
    /\ scenario = "owner"
    /\ proforma.scenario = "owner"
    /\ Changed(assumptions) = { "monthlyRent", "landValuePercent" }
    /\ proforma = calculateProforma(VariantBase, personal, "owner")

\* C30 as stated: for inputs with a positive loan term the year-1 principal,
\* shown as "Mortgage Principal (Equity)", is never negative.
C30_PrincipalNeverNegative ==
    (pc = "returned" /\ Lt(Zero, assumptions.loanTerm))
    => Le(Zero, proforma.year1Principal)

\* C30, the part that holds: year1Principal = 12 x monthlyPI - loanAmount x
\* interestRate; it is strictly positive when loanAmount, interestRate and
\* loanTerm are positive, it is 0 when loanAmount or interestRate is 0, and it
\* is negative only when loanAmount and interestRate are both negative.
C30_PrincipalByCase ==
    pc = "returned"
    => LET loan == loanAmount(assumptions)
           rate == assumptions.interestRate
       IN  /\ proforma.year1Principal
                = Sub(Mul(Whole(12), monthlyPI(assumptions)), Mul(loan, rate))
           /\ (Lt(Zero, loan) /\ Lt(Zero, rate) /\ Lt(Zero, assumptions.loanTerm))
              => Lt(Zero, proforma.year1Principal)
           /\ (loan = Zero \/ rate = Zero) => proforma.year1Principal = Zero
           /\ Lt(proforma.year1Principal, Zero) <=> (Lt(loan, Zero) /\ Lt(rate, Zero))

====
